---------------------------- MODULE Spec2Model ----------------------------
(***************************************************************************)
(* The coordinator (bin/server.rs), the content-addressed cache            *)
(* (recipe.rs, get_*_hash; server.rs, test_dep / load_dep / store_dep),    *)
(* and the coordinator <-> worker wire protocol (network.rs, worker.rs     *)
(* main) of the bootstrapper.                                              *)
(*                                                                         *)
(* A node (name, version) is written as the dep string "name:version" of   *)
(* the recipe files.  SHA-256 is modelled as an injective constructor on   *)
(* strings: sha256(x) = "H(x)".                                            *)
(***************************************************************************)
EXTENDS Integers, Sequences, FiniteSets, TLC

(* ------------------------------ bounds -------------------------------- *)

\* Recipes of the corpus: the first n <= MaxNodes entries of Pool.
MaxNodes == 2
\* Declared deps per recipe.
MaxDeps == 1
\* Distinct archives a build can produce (a build need not be deterministic).
MaxArchive == 2
\* Sources per recipe, overlay files per recipe, lines of the env file.
MaxExtras == 1
\* Segments (the pieces between '/') of a path handed to sanitize_path.
MaxSegs == 4
\* Entries of an archive handed to filter_extract.
MaxEntries == 2
\* Symbolic links followed in one path resolution (the kernel's ELOOP limit).
MaxHops == 2
\* Steps of one build.
MaxSteps == 3
\* Characters of a line handed to env_substitute.
MaxLine == 5
\* Passes of the loop of env_substitute after which it is taken to run for ever.
MaxPasses == 6
\* Segments of the argument of a cd step, and of cur_dir.
MaxArg == 2
\* Characters of a value in env_data.
MaxValue == 3
\* Pieces a recipe version is put together from.
MaxPieces == 3
\* Steps of a declared phase of a Piecewise recipe.
MaxBody == 2
\* Recipes of a corpus in which the coordinator may die inside store_dep.
CrashNodes == 3

(* ----------------------- WorkerStatus (lib.rs) ------------------------ *)

ReadyForWork == 0
ReadyForSource == 1
ReadyForOverlay == 2
HaveSource == 3
NeedSource == 4
ReadyForDep == 5
HaveDep == 6
NeedDep == 7
HaveOverlay == 8
NeedOverlay == 9
ReadyForEnvs == 10
BuildComplete == 11

WorkerStatus == ReadyForWork..BuildComplete

(* ------------------------- names of the corpus ------------------------ *)

\* (name, version) keys in BTreeMap order (lexicographic).
Pool == <<"a:1", "b:1", "b:2", "c:1">>
\* A dep string that names no recipe file.
Undeclared == "x:9"

Idx(n) == CHOOSE i \in 1..Len(Pool) : Pool[i] = n

Declared(n) == {Pool[i] : i \in 1..n}

\* The deps lists of a recipe: no dep twice.
DepLists(n) ==
  {d \in UNION {[1..k -> Declared(n) \cup {Undeclared}] : k \in 0..MaxDeps} :
     \A i, j \in DOMAIN d : d[i] = d[j] => i = j}

SourceNames == <<"s1", "s2", "s3">>
OverlayPaths == <<"o1", "o2", "o3">>
EnvKeys == <<"K1", "K2", "K3">>

Prefix(seq, k) == [i \in 1..k |-> seq[i]]
\* The source maps of the corpus: no source, MaxExtras named sources, or one
\* source whose name is the empty string.
SourceLists == {<<>>, Prefix(SourceNames, MaxExtras), <<"">>}

\* Archive contents a build may produce.
Archives == {"t" \o ToString(i) : i \in 1..MaxArchive}

\* Option::None, and a call that panics instead of returning.
None == "none"
Panic == "panic"
NoNode == "-"
EmptyMap == <<>>

Insert(m, k, v) == (k :> v) @@ m

Range(f) == {f[x] : x \in DOMAIN f}

(* ------------------------------ hashing ------------------------------- *)

sha256(x) == "H(" \o x \o ")"

RECURSIVE Join(_, _)
Join(seq, sep) ==
  IF seq = <<>> THEN ""
  ELSE IF Len(seq) = 1 THEN seq[1]
  ELSE seq[1] \o sep \o Join(Tail(seq), sep)

\* bincode::serialize(&NamedRecipeVersion): name, version, source, deps (the
\* rest of the recipe file is the same for every recipe of the model).
Serialize(n, r) ==
  n \o ";src=" \o Join(r.source, "+") \o ";deps=" \o Join(r.deps, "+")


(* ------------------------------- state -------------------------------- *)

VARIABLES
  recipes,      \* recipes/<name>/<version>.yaml: node -> [deps, source]
  overlays,     \* recipes/<name>/<version>/: node -> sequence of file paths
  envfile,      \* recipes/env: sequence of <<key, value>> lines
  sources_yaml, \* sources.yaml: the revision of its url and sha entries
  fs,           \* build-cache: path -> file contents
  sled,         \* equiv.sled: dep-closure hash -> equivalence hash
  EQUIV_CACHE,  \* recipe.rs EQUIV_CACHE: node -> equivalence hash
  deptree,      \* server.rs main: node -> unsatisfied deps
  cpc,          \* coordinator: position in main / build_recipe
  to_build,     \* coordinator: the node being dispatched
  cidx,         \* coordinator: index in the source / dep / overlay loop
  buf,          \* coordinator: bytes loaded or received in the current step
  hash_buf,     \* coordinator: the 64 bytes read after BuildComplete
  cerr,         \* coordinator: why it aborted
  w2c,          \* stream, worker -> coordinator
  c2w,          \* stream, coordinator -> worker
  wpc,          \* worker: position in main
  wrecv,        \* worker: recipe, source_data, dep_data, overlay_data, env_data
  wname,        \* worker: the name read in the current stream iteration
  warchive,     \* worker: the archive its build produced
  wfault,       \* history: the worker has left the protocol or crashed
  completed,    \* history: the nodes finish_dep removed in this run, in order
  prevRun,      \* history: how the previous coordinator run ended
  path_arg,     \* sanitize_path: the argument p, as its '/'-separated segments
  path_ret,     \* sanitize_path: not called, returned (with the path), panicked
  ar_kind,      \* filter_extract: "zip" or "tar" ("none": not called)
  ar_entries,   \* filter_extract: the entries of the archive, in order
  ar_i,         \* filter_extract: index of the next entry
  ar_state,     \* filter_extract: "idle", "run", "done", "panic"
  tree,         \* the file system: absolute path -> directory, file or link
  touched,      \* history: the paths filter_extract created or wrote
  privileged,   \* the worker may write where the mode bits forbid it (root)
  steps,        \* build: the steps of the recipe, in order
  st_i,         \* build: index of the step do_step is called on
  st_pc,        \* build: "idle", "step", "wait", "done", "panic", "abort"
  children,     \* the chroothelper processes: step -> running, ok, failed
  join_handles, \* build: the non-serial children not yet waited for
  env_data,     \* build: the steps whose assignment is in env_data
  cur_dir,      \* build: the cd step that set cur_dir (0: none)
  line,         \* env_substitute: the argument line, as its characters
  env,          \* env_substitute: the argument env, name -> value
  ret,          \* env_substitute: not called, returned, panicked, looping
  env_map,      \* do_step: the contents of env_data, name -> value
  cwd,          \* do_step: the contents of cur_dir, as its segments
  dirs,         \* the directories under work_dir, as relative paths
  last,         \* do_step: the step of the last call, what it did, the
                \* command it handed to the chroot helper
  names,        \* filter_extract: the paths of the entries, in order
  filter,       \* source_extract_filter: from, to, include, clean_root
  filtered,     \* filter_extract: the prefix found and what the filter
                \* returned for each entry
  recipe_version,  \* build, Piecewise: recipe.version, as its characters
  recipe_name,     \* build, Piecewise: recipe.name, as its characters
  package_dir,     \* build, Piecewise: the package_dir of the recipe, if any
  overflow_checks, \* the worker was built with overflow checks (debug)
  pkg_pass,        \* build, Piecewise: not computed, the pair (pkg, pass)
                   \* left in env_data, panicked
  declared,     \* build, Piecewise: the phases the recipe declares
  body,         \* build, Piecewise: the steps of a declared phase
  destdir,      \* build, Piecewise: env_data has DESTDIR
  pw_pc,        \* build, Piecewise: "idle", "start", "phase", "src_pkg",
                \* "src_checksum", "done", "panic"
  pw_phase,     \* build, Piecewise: index of the phase being run
  pw_i,         \* build, Piecewise: index of the next step of the phase
  pw_cur_dir,   \* build, Piecewise: cur_dir, as its segments
  issued,       \* history: the calls of do_step, with cur_dir at the call
  overlay_data, \* worker main: the overlay paths read from the wire, in the
                \* order of the BTreeMap
  step_n,       \* build: the steps of the recipe not yet run
  b_pc,         \* build thread: "idle", the stage about to run, "returned",
                \* "panicked"
  ov_i,         \* build: index of the next overlay to write
  pending,      \* build: the children in join_handles
  mounts,       \* the mount points under the build root, in mount order
  work_dir,     \* the build root: "none", "live", "released"
  wrote,        \* history: the files build wrote, with the stage that wrote
  pq,           \* the status channel: the updates sent and not yet received
  sender,       \* the Sender of the status channel is alive
  m_pc,         \* worker main: "idle", "spawn", "recv", "join",
                \* "write_archive", "sent", "panicked"
  sent,         \* history: every status update sent
  printed,      \* history: every status update received
  log           \* history: the stages of build and main that have run

corpus == <<recipes, overlays, envfile, sources_yaml>>
store == <<fs, sled>>
coord == <<EQUIV_CACHE, deptree, cpc, to_build, cidx, buf, hash_buf, cerr>>
stream == <<w2c, c2w>>
worker == <<wpc, wrecv, wname, warchive>>
hist == <<wfault, completed, prevRun>>
\* The functions that are checked on their own, outside a run.
pathv == <<path_arg, path_ret>>
extractv ==
  <<ar_kind, ar_entries, ar_i, ar_state, tree, touched, privileged>>
stepv == <<steps, st_i, st_pc, children, join_handles, env_data, cur_dir>>
substv == <<line, env, ret>>
shellv == <<env_map, cwd, dirs, last>>
filterv == <<names, filter, filtered>>
passv ==
  <<recipe_version, recipe_name, package_dir, overflow_checks, pkg_pass>>
phasev == <<declared, body, destdir, pw_pc, pw_phase, pw_i, pw_cur_dir, issued>>
threadv ==
  <<overlay_data, step_n, b_pc, ov_i, pending, mounts, work_dir, wrote, pq, sender, m_pc,
    sent, printed, log>>
buildv == <<passv, phasev, threadv>>
fnv == <<substv, shellv, filterv, buildv>>
units == <<pathv, extractv, stepv, fnv>>
run == <<corpus, store, coord, stream, worker, hist>>
vars == <<run, units>>

Nodes == DOMAIN recipes

(* --------------------------- sources (source.rs) ---------------------- *)

\* The bytes upstream serves for a source name, and its sources.yaml entry.
SourceData(name) == "src-" \o name \o sources_yaml
SOURCES(name) ==
  [url |-> "http://" \o name \o sources_yaml, sha |-> sha256(SourceData(name))]

source_path(hash) == <<"build-cache", "source", hash>>

(* ------------------------- hashes (recipe.rs) ------------------------- *)

\* load_by_target_version panics when the recipe file does not exist.
\* A recipe hash that also digests the size of the build cache.
get_recipe_hash_fs(n) ==
  IF n \in Nodes
  THEN sha256(Serialize(n, recipes[n]) \o ToString(Cardinality(DOMAIN fs)))
  ELSE Panic

\* A recipe hash that also digests the names of the overlay files.
get_recipe_hash_overlays(n) ==
  IF n \in Nodes
  THEN sha256(Serialize(n, recipes[n]) \o Join(overlays[n], "+"))
  ELSE Panic

get_recipe_hash(n) ==
  IF n \in Nodes THEN sha256(Serialize(n, recipes[n])) ELSE Panic

RECURSIVE get_equiv_hash(_, _, _, _), get_depd_hash(_, _, _, _),
          depd_loop(_, _, _, _, _, _)

\* The for loop of get_depd_hash from dep i on: acc is recipe_hash so far.
depd_loop(ds, i, acc, c, s, stk) ==
  IF i > Len(ds) THEN [val |-> sha256(acc), cache |-> c]
  ELSE LET equiv == get_equiv_hash(ds[i], c, s, stk)
       IN  IF equiv.val \in {None, Panic} THEN equiv
           ELSE depd_loop(ds, i + 1, acc \o "," \o equiv.val, equiv.cache, s, stk)

\* [val: the hash, None or Panic; cache: EQUIV_CACHE after the call].  stk is
\* the call stack: a recipe that is reached again below itself recurses
\* without end, and the process dies as it does on a missing recipe file.
get_depd_hash(n, c, s, stk) ==
  IF n \notin Nodes \/ n \in stk THEN [val |-> Panic, cache |-> c]
  ELSE depd_loop(recipes[n].deps, 1, get_recipe_hash(n), c, s, stk \cup {n})

get_equiv_hash(n, c, s, stk) ==
  IF n \in DOMAIN c THEN [val |-> c[n], cache |-> c]
  ELSE LET depd == get_depd_hash(n, c, s, stk)
       IN  IF depd.val \in {None, Panic} THEN depd
           ELSE IF depd.val \in DOMAIN s
                THEN [val |-> s[depd.val],
                      cache |-> Insert(depd.cache, n, s[depd.val])]
                ELSE [val |-> None, cache |-> depd.cache]

(* ---------------------- the cache (bin/server.rs) --------------------- *)

dep_path(hash) == <<"build-cache", "build", hash>>

IsHash(v) == v \notin {None, Panic}

\* [ok: the result; panic: the call does not return; cache]
\* A test_dep that never finds a prebuilt artefact.
test_dep_miss(dep, c, s, f) ==
  LET equiv == get_equiv_hash(dep, c, s, {})
  IN  [ok |-> FALSE, panic |-> equiv.val = Panic, cache |-> equiv.cache]

test_dep(dep, c, s, f) ==
  LET equiv == get_equiv_hash(dep, c, s, {})
  IN  [ok |-> IsHash(equiv.val) /\ dep_path(equiv.val) \in DOMAIN f,
       panic |-> equiv.val = Panic,
       cache |-> equiv.cache]

\* ok = FALSE where the code panics (unwrap of None, read of a missing file).
load_dep(dep, c, s, f) ==
  LET equiv == get_equiv_hash(dep, c, s, {})
      ok == IsHash(equiv.val) /\ dep_path(equiv.val) \in DOMAIN f
  IN  [ok |-> ok,
       data |-> IF ok THEN f[dep_path(equiv.val)] ELSE "",
       cache |-> equiv.cache]

\* [ok, fs, sled, cache] after store_dep(dep, contents); ok = FALSE where
\* get_depd_hash(..).unwrap() panics.
store_dep(dep, contents, c, s, f) ==
  LET recipe_hash == get_depd_hash(dep, c, s, {})
      equiv_hash == sha256(contents)
  IN  IF ~IsHash(recipe_hash.val)
      THEN [ok |-> FALSE, fs |-> f, sled |-> s, cache |-> recipe_hash.cache]
      ELSE [ok |-> TRUE,
            fs |-> Insert(f, dep_path(equiv_hash), contents),
            sled |-> Insert(s, recipe_hash.val, equiv_hash),
            cache |-> recipe_hash.cache]

(* -------------------- the scheduler (bin/server.rs) ------------------- *)

\* A scheduler that takes every node of the graph for ready.
ready_all(dt) == DOMAIN dt

ready_to_build(dt) == {k \in DOMAIN dt : dt[k] = {}}

\* A choice of the largest key.
Greatest(S) == CHOOSE k \in S : \A m \in S : Idx(m) <= Idx(k)

\* BTreeSet::first: the smallest key.
First(S) == CHOOSE k \in S : \A m \in S : Idx(k) <= Idx(m)

\* A finish_dep that empties the graph.
finish_all(dt, dep) == [k \in {} |-> {}]

\* A finish_dep that leaves the node in the graph.
finish_keep(dt, dep) == [k \in DOMAIN dt |-> dt[k] \ {dep}]

finish_dep(dt, dep) ==
  [k \in DOMAIN dt \ {dep} |-> dt[k] \ {dep}]

\* main, lines 112-126: every recipe with the set of its declared deps.
InitialDeptree == [n \in Nodes |-> Range(recipes[n].deps)]

(* ------------------------------- frames ------------------------------- *)

U8(v) == [tag |-> "u8", val |-> v]
\* u16 length + bytes; the empty name is the zero-length terminator.
NameFrame(name) == [tag |-> "name", val |-> name]
\* length + bytes
DataFrame(data) == [tag |-> "data", val |-> data]
HashFrame(hash) == [tag |-> "hash", val |-> hash]
\* length + fewer bytes than the length announces, then end of stream
PartFrame(data) == [tag |-> "part", val |-> data]
EnvsFrame(envs) == [tag |-> "envs", val |-> envs]
Terminator == NameFrame("")

IsStatus(m, status) == m.tag = "u8" /\ m.val = status

WRecvInit ==
  [recipe |-> "", sources |-> EmptyMap, deps |-> EmptyMap,
   overlays |-> EmptyMap, envs |-> EmptyMap]

(* -------------------------------- Init -------------------------------- *)

\* sanitize_path has not been called.
NotCalled == [state |-> "none", path |-> <<>>]

PathIdle == path_arg = <<>> /\ path_ret = NotCalled

\* filter_extract has not been called.
ExtractIdle ==
  /\ ar_kind = "none" /\ ar_entries = <<>> /\ ar_i = 0 /\ ar_state = "idle"
  /\ tree = EmptyMap /\ touched = {} /\ privileged = FALSE

\* build has not been called.
StepIdle ==
  /\ steps = <<>> /\ st_i = 0 /\ st_pc = "idle" /\ children = EmptyMap
  /\ join_handles = <<>> /\ env_data = {} /\ cur_dir = 0

\* env_substitute has not been called.
Unset == [state |-> "none", text |-> <<>>]

SubstIdle == line = <<>> /\ env = EmptyMap /\ ret = Unset

\* do_step has not been called.
NoStep == [cmd |-> <<>>, bash |-> FALSE]
NoCall == [step |-> NoStep, did |-> "none", argv |-> <<>>]

ShellIdle == env_map = EmptyMap /\ cwd = <<>> /\ dirs = {} /\ last = NoCall

\* No archive has been handed to filter_extract for its paths.
NoFilter == [from |-> <<>>, to |-> <<>>, include |-> {}, clean_root |-> FALSE]
Unfiltered == [kind |-> "none", state |-> "none", prefix |-> <<>>, outs |-> <<>>]

FilterIdle == names = <<>> /\ filter = NoFilter /\ filtered = Unfiltered

\* The pass suffix has not been parsed.
NoPass == [state |-> "none", pkg |-> <<>>, pass |-> <<>>]

PassIdle ==
  /\ recipe_version = <<>> /\ recipe_name = <<>>
  /\ package_dir = [some |-> FALSE, text |-> <<>>]
  /\ overflow_checks = FALSE /\ pkg_pass = NoPass

PhaseIdle ==
  /\ declared = {} /\ body = <<>> /\ destdir = FALSE /\ pw_pc = "idle"
  /\ pw_phase = 0 /\ pw_i = 0 /\ pw_cur_dir = <<>> /\ issued = <<>>

ThreadIdle ==
  /\ overlay_data = <<>> /\ step_n = 0 /\ b_pc = "idle" /\ ov_i = 0
  /\ pending = 0 /\ mounts = <<>> /\ work_dir = "none" /\ wrote = <<>> /\ pq = <<>>
  /\ sender = FALSE /\ m_pc = "idle" /\ sent = <<>> /\ printed = <<>>
  /\ log = <<>>

BuildIdle == PassIdle /\ PhaseIdle /\ ThreadIdle

FnIdle == SubstIdle /\ ShellIdle /\ FilterIdle /\ BuildIdle

\* A fresh checkout: no build-cache, no equiv.sled; main has loaded the
\* recipes, built deptree and accepted the worker's connection.
InitOver(sizes) ==
  /\ \E n \in sizes, x \in {0, MaxExtras}, src \in SourceLists :
       /\ src = Prefix(SourceNames, x) \/ (x = 0 /\ src = <<"">>)
       /\ recipes \in [Declared(n) -> [deps : DepLists(n), source : {src}]]
       /\ overlays = [m \in Declared(n) |-> Prefix(OverlayPaths, x)]
       /\ envfile = [i \in 1..x |-> <<EnvKeys[i], "v" \o ToString(i)>>]
  /\ sources_yaml = ""
  /\ fs = EmptyMap
  /\ sled = EmptyMap
  /\ EQUIV_CACHE = EmptyMap
  /\ deptree = InitialDeptree
  /\ cpc = "loop"
  /\ to_build = NoNode
  /\ cidx = 0
  /\ buf = ""
  /\ hash_buf = ""
  /\ cerr = ""
  /\ w2c = <<>>
  /\ c2w = <<>>
  /\ wpc = "w_work"
  /\ wrecv = WRecvInit
  /\ wname = ""
  /\ warchive = ""
  /\ wfault = FALSE
  /\ completed = <<>>
  /\ prevRun = "none"
  /\ PathIdle
  /\ ExtractIdle
  /\ StepIdle
  /\ FnIdle

Init == InitOver(0..MaxNodes)

\* The corpora of CrashNodes recipes of which only the last has dependencies.
CrashInit ==
  /\ InitOver({CrashNodes})
  /\ \A n \in Declared(CrashNodes - 1) : recipes[n].deps = <<>>

(* ----------------- coordinator: main loop (server.rs) ----------------- *)

\* An entry of the history: the node, "cache" or "build", the archive received
\* and the hash received with it.
Done(n, by, archive, h) == [node |-> n, by |-> by, archive |-> archive, hash |-> h]

\* Lines 132-140: the first ready node is satisfied by the cache.
CoordCacheHit ==
  /\ cpc = "loop"
  /\ ready_to_build(deptree) # {}
  /\ LET dep == First(ready_to_build(deptree))
         t == test_dep(dep, EQUIV_CACHE, sled, fs)
     IN  /\ t.ok
         /\ EQUIV_CACHE' = t.cache
         /\ deptree' = finish_dep(deptree, dep)
         /\ completed' = Append(completed, Done(dep, "cache", "", ""))
  /\ UNCHANGED <<units, corpus, store, cpc, to_build, cidx, buf, hash_buf, cerr, stream, worker,
                 wfault, prevRun>>

\* Lines 132-144: the first ready node is not in the cache; build_recipe starts.
CoordDispatch ==
  /\ cpc = "loop"
  /\ ready_to_build(deptree) # {}
  /\ LET dep == First(ready_to_build(deptree))
         t == test_dep(dep, EQUIV_CACHE, sled, fs)
     IN  /\ ~t.ok
         /\ EQUIV_CACHE' = t.cache
         /\ to_build' = dep
         /\ cpc' = IF t.panic THEN "aborted" ELSE "work"
         /\ cerr' = IF t.panic THEN "panic" ELSE cerr
  /\ UNCHANGED <<units, corpus, store, deptree, cidx, buf, hash_buf, stream, worker, hist>>

\* A main loop that may end while a node is ready.
CoordLoopExitEarly ==
  /\ cpc = "loop"
  /\ cpc' = "term"
  /\ UNCHANGED <<units, corpus, store, EQUIV_CACHE, deptree, to_build, cidx, buf, hash_buf, cerr,
                 stream, worker, hist>>

\* Line 132: no ready node is left; the loop ends.
CoordLoopExit ==
  /\ cpc = "loop"
  /\ ready_to_build(deptree) = {}
  /\ cpc' = "term"
  /\ UNCHANGED <<units, corpus, store, EQUIV_CACHE, deptree, to_build, cidx, buf, hash_buf, cerr,
                 stream, worker, hist>>

(* ------------- coordinator: build_recipe (server.rs, network.rs) ------ *)

\* The status byte each blocking read_u8 of the coordinator asserts.
Expected(pc) ==
  CASE pc = "work" -> ReadyForWork
    [] pc = "src_ready" -> ReadyForSource
    [] pc = "src_need" -> NeedSource
    [] pc = "src_finish" -> ReadyForSource
    [] pc = "dep_ready" -> ReadyForDep
    [] pc = "dep_need" -> NeedDep
    [] pc = "dep_finish" -> ReadyForDep
    [] pc = "ovl_ready" -> ReadyForOverlay
    [] pc = "ovl_need" -> NeedOverlay
    [] pc = "ovl_finish" -> ReadyForOverlay
    [] pc = "envs" -> ReadyForEnvs
    [] pc = "complete" -> BuildComplete
    [] pc = "term" -> ReadyForWork

ExpectPoints ==
  {"work", "src_ready", "src_need", "src_finish", "dep_ready", "dep_need",
   "dep_finish", "ovl_ready", "ovl_need", "ovl_finish", "envs", "complete",
   "term"}

\* read_u8 returns the asserted status byte at position pc.
\* A coordinator that takes any byte for the status it waits for.
GotAny(pc) == cpc = pc /\ w2c # <<>> /\ Head(w2c).tag = "u8"

Got(pc) == cpc = pc /\ w2c # <<>> /\ IsStatus(Head(w2c), Expected(pc))

SourcePc(i) == IF i <= Len(recipes[to_build].source) THEN "src_fetch" ELSE "src_finish"
DepPc(i) == IF i <= Len(recipes[to_build].deps) THEN "dep_load" ELSE "dep_finish"
OverlayPc(i) == IF i <= Len(overlays[to_build]) THEN "ovl_ready" ELSE "ovl_finish"

\* Lines 166-176: ReadyForWork, then 0 and the serialised recipe.
CoordSendWork ==
  /\ Got("work")
  /\ w2c' = Tail(w2c)
  /\ c2w' = c2w \o <<U8(0), [tag |-> "recipe", val |-> to_build]>>
  /\ cidx' = 1
  /\ cpc' = SourcePc(1)
  /\ UNCHANGED <<units, corpus, store, EQUIV_CACHE, deptree, to_build, buf, hash_buf, cerr,
                 worker, hist>>

\* Lines 180-186: the source's bytes, from build-cache/source or fetched
\* (fetch_source stores what it fetched).
CoordFetchSource ==
  /\ cpc = "src_fetch"
  /\ LET source_contents == SOURCES(recipes[to_build].source[cidx])
         spath == source_path(source_contents.sha)
     IN  /\ buf' = SourceData(recipes[to_build].source[cidx])
         /\ fs' = IF spath \in DOMAIN fs THEN fs
                  ELSE Insert(fs, spath, SourceData(recipes[to_build].source[cidx]))
  /\ cpc' = "src_ready"
  /\ UNCHANGED <<units, corpus, sled, EQUIV_CACHE, deptree, to_build, cidx, hash_buf, cerr,
                 stream, worker, hist>>

\* write_source, lines 56-64.
CoordWriteSourceName ==
  /\ Got("src_ready")
  /\ w2c' = Tail(w2c)
  /\ c2w' = Append(c2w, NameFrame(recipes[to_build].source[cidx]))
  /\ cpc' = "src_need"
  /\ UNCHANGED <<units, corpus, store, EQUIV_CACHE, deptree, to_build, cidx, buf, hash_buf, cerr,
                 worker, hist>>

\* write_source, lines 65-77.
CoordWriteSourceData ==
  /\ Got("src_need")
  /\ w2c' = Tail(w2c)
  /\ c2w' = c2w \o <<[tag |-> "contents",
                      val |-> SOURCES(recipes[to_build].source[cidx])],
                     DataFrame(buf)>>
  /\ cidx' = cidx + 1
  /\ cpc' = SourcePc(cidx + 1)
  /\ UNCHANGED <<units, corpus, store, EQUIV_CACHE, deptree, to_build, buf, hash_buf, cerr,
                 worker, hist>>

\* finish_sources.
CoordFinishSources ==
  /\ Got("src_finish")
  /\ w2c' = Tail(w2c)
  /\ c2w' = Append(c2w, Terminator)
  /\ cidx' = 1
  /\ cpc' = DepPc(1)
  /\ UNCHANGED <<units, corpus, store, EQUIV_CACHE, deptree, to_build, buf, hash_buf, cerr,
                 worker, hist>>

\* Line 197: load_dep, evaluated before write_dep reads; it panics when the
\* dep has no equivalence hash or its artefact file is missing.
CoordLoadDep ==
  /\ cpc = "dep_load"
  /\ LET l == load_dep(recipes[to_build].deps[cidx], EQUIV_CACHE, sled, fs)
     IN  /\ EQUIV_CACHE' = l.cache
         /\ buf' = l.data
         /\ cpc' = IF l.ok THEN "dep_ready" ELSE "aborted"
         /\ cerr' = IF l.ok THEN cerr ELSE "load_dep"
  /\ UNCHANGED <<units, corpus, store, deptree, to_build, cidx, hash_buf, stream, worker,
                 hist>>

\* write_dep, lines 113-118.
CoordWriteDepName ==
  /\ Got("dep_ready")
  /\ w2c' = Tail(w2c)
  /\ c2w' = Append(c2w, NameFrame(recipes[to_build].deps[cidx]))
  /\ cpc' = "dep_need"
  /\ UNCHANGED <<units, corpus, store, EQUIV_CACHE, deptree, to_build, cidx, buf, hash_buf, cerr,
                 worker, hist>>

\* write_dep, lines 119-123.
CoordWriteDepData ==
  /\ Got("dep_need")
  /\ w2c' = Tail(w2c)
  /\ c2w' = Append(c2w, DataFrame(buf))
  /\ cidx' = cidx + 1
  /\ cpc' = DepPc(cidx + 1)
  /\ UNCHANGED <<units, corpus, store, EQUIV_CACHE, deptree, to_build, buf, hash_buf, cerr,
                 worker, hist>>

\* finish_deps.
CoordFinishDeps ==
  /\ Got("dep_finish")
  /\ w2c' = Tail(w2c)
  /\ c2w' = Append(c2w, Terminator)
  /\ cidx' = 1
  /\ cpc' = OverlayPc(1)
  /\ UNCHANGED <<units, corpus, store, EQUIV_CACHE, deptree, to_build, buf, hash_buf, cerr,
                 worker, hist>>

\* The bytes of an overlay file.
OverlayData(n, path) == "ovl-" \o n \o "/" \o path

\* write_overlay, lines 153-161.
CoordWriteOverlayName ==
  /\ Got("ovl_ready")
  /\ w2c' = Tail(w2c)
  /\ c2w' = Append(c2w, NameFrame(overlays[to_build][cidx]))
  /\ cpc' = "ovl_need"
  /\ UNCHANGED <<units, corpus, store, EQUIV_CACHE, deptree, to_build, cidx, buf, hash_buf, cerr,
                 worker, hist>>

\* write_overlay, lines 162-166.
CoordWriteOverlayData ==
  /\ Got("ovl_need")
  /\ w2c' = Tail(w2c)
  /\ c2w' = Append(c2w, DataFrame(OverlayData(to_build, overlays[to_build][cidx])))
  /\ cidx' = cidx + 1
  /\ cpc' = OverlayPc(cidx + 1)
  /\ UNCHANGED <<units, corpus, store, EQUIV_CACHE, deptree, to_build, buf, hash_buf, cerr,
                 worker, hist>>

\* finish_overlays.
CoordFinishOverlays ==
  /\ Got("ovl_finish")
  /\ w2c' = Tail(w2c)
  /\ c2w' = Append(c2w, Terminator)
  /\ cpc' = "envs"
  /\ UNCHANGED <<units, corpus, store, EQUIV_CACHE, deptree, to_build, cidx, buf, hash_buf, cerr,
                 worker, hist>>

\* server.rs lines 218-229: the env file as a map.
dir_envs == [k \in {envfile[i][1] : i \in DOMAIN envfile} |->
               LET i == CHOOSE j \in DOMAIN envfile :
                          /\ envfile[j][1] = k
                          /\ \A l \in DOMAIN envfile : envfile[l][1] = k => l <= j
               IN  envfile[i][2]]

\* write_envs.
CoordWriteEnvs ==
  /\ Got("envs")
  /\ w2c' = Tail(w2c)
  /\ c2w' = Append(c2w, EnvsFrame(dir_envs))
  /\ cpc' = "complete"
  /\ UNCHANGED <<units, corpus, store, EQUIV_CACHE, deptree, to_build, cidx, buf, hash_buf, cerr,
                 worker, hist>>

\* Lines 233-240: BuildComplete, the 64 hash bytes (read and not looked at),
\* the archive.
CoordReadArchive ==
  /\ Got("complete")
  /\ Len(w2c) >= 3
  /\ w2c[2].tag = "hash"
  /\ w2c[3].tag = "data"
  /\ hash_buf' = w2c[2].val
  /\ buf' = w2c[3].val
  /\ w2c' = SubSeq(w2c, 4, Len(w2c))
  /\ cpc' = "store"
  /\ UNCHANGED <<units, corpus, store, EQUIV_CACHE, deptree, to_build, cidx, cerr, c2w,
                 worker, hist>>

\* A coordinator that goes on to the next recipe without store_dep.
CoordStoreDepSkip ==
  /\ cpc = "store"
  /\ deptree' = finish_dep(deptree, to_build)
  /\ completed' = Append(completed, Done(to_build, "build", buf, hash_buf))
  /\ cpc' = "loop"
  /\ UNCHANGED <<units, corpus, store, EQUIV_CACHE, to_build, cidx, buf, hash_buf,
                 cerr, stream, worker, wfault, prevRun>>

\* Lines 146-148: store_dep, then finish_dep.
CoordStoreDep ==
  /\ cpc = "store"
  /\ LET st == store_dep(to_build, buf, EQUIV_CACHE, sled, fs)
     IN  /\ EQUIV_CACHE' = st.cache
         /\ fs' = st.fs
         /\ sled' = st.sled
         /\ IF st.ok
            THEN /\ deptree' = finish_dep(deptree, to_build)
                 /\ completed' = Append(completed, Done(to_build, "build", buf, hash_buf))
                 /\ cpc' = "loop"
                 /\ cerr' = cerr
            ELSE /\ cpc' = "aborted"
                 /\ cerr' = "store_dep"
                 /\ UNCHANGED <<deptree, completed>>
  /\ UNCHANGED <<units, corpus, to_build, cidx, buf, hash_buf, stream, worker, wfault, prevRun>>

\* store_dep, lines 65-70: the process dies after the artefact file is
\* written and before equiv.sled is opened.
CoordStoreDepCrash ==
  /\ cpc = "store"
  /\ LET st == store_dep(to_build, buf, EQUIV_CACHE, sled, fs)
     IN  /\ st.ok
         /\ EQUIV_CACHE' = st.cache
         /\ fs' = st.fs
  /\ cpc' = "aborted"
  /\ cerr' = "crash"
  /\ UNCHANGED <<units, corpus, sled, deptree, to_build, cidx, buf, hash_buf, stream, worker,
                 hist>>

\* Lines 151-162: ReadyForWork, the terminate byte, the remaining packages.
CoordTerminate ==
  /\ Got("term")
  /\ w2c' = Tail(w2c)
  /\ c2w' = Append(c2w, U8(1))
  /\ cpc' = "done"
  /\ UNCHANGED <<units, corpus, store, EQUIV_CACHE, deptree, to_build, cidx, buf, hash_buf, cerr,
                 worker, hist>>

\* What main prints under "Remaining packages:".
RemainingPackages == DOMAIN deptree

\* An assert_eq on a status byte fails: read_u8 has taken a byte that is not
\* the one expected here, and the process panics.
CoordProtocolAbort ==
  /\ cpc \in ExpectPoints
  /\ w2c # <<>>
  /\ ~IsStatus(Head(w2c), Expected(cpc))
  /\ w2c' = Tail(w2c)
  /\ cpc' = "aborted"
  /\ cerr' = "protocol"
  /\ UNCHANGED <<units, corpus, store, EQUIV_CACHE, deptree, to_build, cidx, buf, hash_buf, c2w,
                 worker, hist>>

\* read_u8().unwrap() on a connection the worker's death has closed.
CoordReadEof ==
  /\ cpc \in ExpectPoints
  /\ w2c = <<>>
  /\ wpc = "w_crashed"
  /\ cpc' = "aborted"
  /\ cerr' = "eof"
  /\ UNCHANGED <<units, corpus, store, EQUIV_CACHE, deptree, to_build, cidx, buf, hash_buf,
                 stream, worker, hist>>

\* A coordinator that keeps what it has of an archive that was cut short.
CoordReadTruncatedKeep ==
  /\ Got("complete")
  /\ Len(w2c) >= 3
  /\ w2c[2].tag = "hash"
  /\ w2c[3].tag = "part"
  /\ hash_buf' = w2c[2].val
  /\ fs' = Insert(fs, dep_path(sha256(w2c[3].val)), w2c[3].val)
  /\ w2c' = <<>>
  /\ cpc' = "aborted"
  /\ cerr' = "eof"
  /\ UNCHANGED <<units, corpus, sled, EQUIV_CACHE, deptree, to_build, cidx, buf,
                 c2w, worker, hist>>

\* Lines 233-238: the connection ends before the whole archive has come;
\* read_exact(..).unwrap() panics.
CoordReadTruncated ==
  /\ Got("complete")
  /\ Len(w2c) >= 3
  /\ w2c[2].tag = "hash"
  /\ w2c[3].tag = "part"
  /\ hash_buf' = w2c[2].val
  /\ w2c' = <<>>
  /\ cpc' = "aborted"
  /\ cerr' = "eof"
  /\ UNCHANGED <<units, corpus, store, EQUIV_CACHE, deptree, to_build, cidx, buf,
                 c2w, worker, hist>>

(* ------------------ worker: main (worker.rs, network.rs) -------------- *)

\* The status byte the worker writes at each write_u8 of main / read_*.
WStatus(pc) ==
  CASE pc = "w_work" -> ReadyForWork
    [] pc = "w_src" -> ReadyForSource
    [] pc = "w_src_need" -> NeedSource
    [] pc = "w_dep" -> ReadyForDep
    [] pc = "w_dep_need" -> NeedDep
    [] pc = "w_ovl" -> ReadyForOverlay
    [] pc = "w_ovl_need" -> NeedOverlay
    [] pc = "w_envs" -> ReadyForEnvs
    [] pc = "w_complete" -> BuildComplete

\* The read that follows each write.
WAfter(pc) ==
  CASE pc = "w_work" -> "w_reply"
    [] pc = "w_src" -> "w_src_name"
    [] pc = "w_src_need" -> "w_src_data"
    [] pc = "w_dep" -> "w_dep_name"
    [] pc = "w_dep_need" -> "w_dep_data"
    [] pc = "w_ovl" -> "w_ovl_name"
    [] pc = "w_ovl_need" -> "w_ovl_data"
    [] pc = "w_envs" -> "w_envs_data"
    [] pc = "w_complete" -> "w_work"

WritePoints ==
  {"w_work", "w_src", "w_src_need", "w_dep", "w_dep_need", "w_ovl",
   "w_ovl_need", "w_envs", "w_complete"}

\* write_archive, after the status byte: the hash and the archive.
ArchiveFrames(pc) ==
  IF pc = "w_complete"
  THEN <<HashFrame(sha256(warchive)), DataFrame(warchive)>>
  ELSE <<>>

\* The bytes a deviating worker writes in place of status: the statuses next
\* to it in the enum (every other byte fails the same assert_eq).
WrongBytes(status) ==
  {b \in WorkerStatus : b = (status + 1) % 12 \/ b = (status + 11) % 12}

\* The worker writes its status byte (write_archive: and what follows it).
WorkerSend ==
  /\ wpc \in WritePoints
  /\ w2c' = w2c \o <<U8(WStatus(wpc))>> \o ArchiveFrames(wpc)
  /\ wpc' = WAfter(wpc)
  /\ UNCHANGED <<units, corpus, store, coord, c2w, wrecv, wname, warchive, hist>>

\* A worker that is not the implemented one: it writes another byte.
WorkerSendWrong ==
  /\ wpc \in WritePoints
  /\ ~wfault
  /\ \E b \in WrongBytes(WStatus(wpc)) :
       w2c' = w2c \o <<U8(b)>> \o ArchiveFrames(wpc)
  /\ wpc' = WAfter(wpc)
  /\ wfault' = TRUE
  /\ UNCHANGED <<units, corpus, store, coord, c2w, wrecv, wname, warchive, completed,
                 prevRun>>

\* A worker that is not the implemented one: it leaves the byte out.
WorkerOmit ==
  /\ wpc \in WritePoints
  /\ ~wfault
  /\ w2c' = w2c \o ArchiveFrames(wpc)
  /\ wpc' = WAfter(wpc)
  /\ wfault' = TRUE
  /\ UNCHANGED <<units, corpus, store, coord, c2w, wrecv, wname, warchive, completed,
                 prevRun>>

\* A worker that goes on to read a recipe whatever the reply is.
WorkerReadReplyOn ==
  /\ wpc = "w_reply"
  /\ c2w # <<>>
  /\ Head(c2w).tag = "u8"
  /\ c2w' = Tail(c2w)
  /\ wpc' = "w_recipe"
  /\ wrecv' = WRecvInit
  /\ UNCHANGED <<units, corpus, store, coord, w2c, wname, warchive, hist>>

\* main, line 43: the coordinator's reply; 1 ends the loop.
WorkerReadReply ==
  /\ wpc = "w_reply"
  /\ c2w # <<>>
  /\ Head(c2w).tag = "u8"
  /\ c2w' = Tail(c2w)
  /\ wpc' = IF Head(c2w).val = 1 THEN "w_exit" ELSE "w_recipe"
  /\ wrecv' = WRecvInit
  /\ UNCHANGED <<units, corpus, store, coord, w2c, wname, warchive, hist>>

\* read_recipe.
WorkerReadRecipe ==
  /\ wpc = "w_recipe"
  /\ c2w # <<>>
  /\ Head(c2w).tag = "recipe"
  /\ c2w' = Tail(c2w)
  /\ wrecv' = [wrecv EXCEPT !.recipe = Head(c2w).val]
  /\ wpc' = "w_src"
  /\ UNCHANGED <<units, corpus, store, coord, w2c, wname, warchive, hist>>

\* The stream a name read belongs to, and where a zero length leads.
NamePoints == {"w_src_name", "w_dep_name", "w_ovl_name"}
WNeed(pc) ==
  CASE pc = "w_src_name" -> "w_src_need"
    [] pc = "w_dep_name" -> "w_dep_need"
    [] pc = "w_ovl_name" -> "w_ovl_need"
\* A worker that goes from the source stream straight to the overlay stream.
WBreakSkip(pc) ==
  CASE pc = "w_src_name" -> "w_ovl"
    [] pc = "w_dep_name" -> "w_ovl"
    [] pc = "w_ovl_name" -> "w_envs"
WBreak(pc) ==
  CASE pc = "w_src_name" -> "w_dep"
    [] pc = "w_dep_name" -> "w_ovl"
    [] pc = "w_ovl_name" -> "w_envs"

\* read_sources / read_deps / read_overlays: the u16 name length and the name.
WorkerReadName ==
  /\ wpc \in NamePoints
  /\ c2w # <<>>
  /\ Head(c2w).tag = "name"
  /\ c2w' = Tail(c2w)
  /\ wname' = Head(c2w).val
  /\ wpc' = IF Head(c2w).val = "" THEN WBreak(wpc) ELSE WNeed(wpc)
  /\ UNCHANGED <<units, corpus, store, coord, w2c, wrecv, warchive, hist>>

\* read_sources, lines 39-50: the SourceContents, the data, the insert.
WorkerReadSource ==
  /\ wpc = "w_src_data"
  /\ Len(c2w) >= 2
  /\ c2w[1].tag = "contents"
  /\ c2w[2].tag = "data"
  /\ c2w' = SubSeq(c2w, 3, Len(c2w))
  /\ wrecv' = [wrecv EXCEPT !.sources =
                 Insert(@, wname, <<c2w[1].val, c2w[2].val>>)]
  /\ wpc' = "w_src"
  /\ UNCHANGED <<units, corpus, store, coord, w2c, wname, warchive, hist>>

\* A read_deps that files every dep under one fixed key.
WorkerReadDepLast ==
  /\ wpc = "w_dep_data"
  /\ c2w # <<>>
  /\ Head(c2w).tag = "data"
  /\ c2w' = Tail(c2w)
  /\ wrecv' = [wrecv EXCEPT !.deps = Insert(EmptyMap, "last", Head(c2w).val)]
  /\ wpc' = "w_dep"
  /\ UNCHANGED <<units, corpus, store, coord, w2c, wname, warchive, hist>>

\* read_deps, lines 103-107.
WorkerReadDep ==
  /\ wpc = "w_dep_data"
  /\ c2w # <<>>
  /\ Head(c2w).tag = "data"
  /\ c2w' = Tail(c2w)
  /\ wrecv' = [wrecv EXCEPT !.deps = Insert(@, wname, Head(c2w).val)]
  /\ wpc' = "w_dep"
  /\ UNCHANGED <<units, corpus, store, coord, w2c, wname, warchive, hist>>

\* read_overlays, lines 143-147.
WorkerReadOverlay ==
  /\ wpc = "w_ovl_data"
  /\ c2w # <<>>
  /\ Head(c2w).tag = "data"
  /\ c2w' = Tail(c2w)
  /\ wrecv' = [wrecv EXCEPT !.overlays = Insert(@, wname, Head(c2w).val)]
  /\ wpc' = "w_ovl"
  /\ UNCHANGED <<units, corpus, store, coord, w2c, wname, warchive, hist>>

\* read_envs, lines 186-199.
WorkerReadEnvs ==
  /\ wpc = "w_envs_data"
  /\ c2w # <<>>
  /\ Head(c2w).tag = "envs"
  /\ c2w' = Tail(c2w)
  /\ wrecv' = [wrecv EXCEPT !.envs = Head(c2w).val]
  /\ wpc' = "w_build"
  /\ UNCHANGED <<units, corpus, store, coord, w2c, wname, warchive, hist>>

\* main, lines 55-65: the build thread returns (hash, archive).  What the
\* build writes into the tar is not fixed by its inputs.
WorkerBuild ==
  /\ wpc = "w_build"
  /\ warchive' \in Archives
  /\ wpc' = "w_complete"
  /\ UNCHANGED <<units, corpus, store, coord, stream, wrecv, wname, hist>>

\* main, line 65: the build thread panicked (a command failed); join().unwrap()
\* panics and the process ends.
WorkerCrash ==
  /\ wpc = "w_build"
  /\ wpc' = "w_crashed"
  /\ wfault' = TRUE
  /\ UNCHANGED <<units, corpus, store, coord, stream, wrecv, wname, warchive,
                 completed, prevRun>>

\* A worker that is not the implemented one: the 64 bytes it writes after
\* BuildComplete are not the SHA-256 of the archive that follows.
WorkerSendBadHash ==
  /\ wpc = "w_complete"
  /\ ~wfault
  /\ w2c' = w2c \o <<U8(BuildComplete), HashFrame(sha256("other")),
                      DataFrame(warchive)>>
  /\ wpc' = "w_work"
  /\ wfault' = TRUE
  /\ UNCHANGED <<units, corpus, store, coord, c2w, wrecv, wname, warchive, completed,
                 prevRun>>

\* The worker dies inside write_archive: the status byte, the hash and the
\* length of the archive are on the connection, the archive bytes are not.
WorkerTruncate ==
  /\ wpc = "w_complete"
  /\ ~wfault
  /\ w2c' = w2c \o <<U8(BuildComplete), HashFrame(sha256(warchive)),
                      PartFrame("")>>
  /\ wpc' = "w_crashed"
  /\ wfault' = TRUE
  /\ UNCHANGED <<units, corpus, store, coord, c2w, wrecv, wname, warchive, completed,
                 prevRun>>

(* --------------------------- the next run ----------------------------- *)

\* The revisions of sources.yaml.
Revisions == {"", "2"}

\* The coordinator has exited for the first time; the overlay files, the env
\* file and the url and sha entries of sources.yaml are edited before the
\* next run.
EditCorpus ==
  /\ cpc \in {"done", "aborted"}
  /\ prevRun = "none"
  /\ \E x \in {0, MaxExtras}, rev \in Revisions :
       /\ overlays' = [m \in Nodes |-> Prefix(OverlayPaths, x)]
       /\ envfile' = [i \in 1..x |-> <<EnvKeys[i], "v" \o ToString(i)>>]
       /\ sources_yaml' = rev
  /\ UNCHANGED <<units, recipes, store, coord, stream, worker, hist>>
  /\ corpus' # corpus

\* The coordinator has exited; artefact files may be deleted from
\* build-cache/build (equiv.sled is kept); then coordinator and worker are
\* started again: lines 75-130.
Restart ==
  /\ cpc \in {"done", "aborted"}
  /\ \E del \in SUBSET {p \in DOMAIN fs : p[2] = "build"} :
       /\ fs' = [p \in DOMAIN fs \ del |-> fs[p]]
       /\ prevRun' = IF cpc = "done" /\ deptree = EmptyMap /\ del = {}
                     THEN "complete" ELSE "other"
  /\ EQUIV_CACHE' = EmptyMap
  /\ deptree' = InitialDeptree
  /\ cpc' = "loop"
  /\ to_build' = NoNode
  /\ cidx' = 0
  /\ buf' = ""
  /\ hash_buf' = ""
  /\ cerr' = ""
  /\ w2c' = <<>>
  /\ c2w' = <<>>
  /\ wpc' = "w_work"
  /\ wrecv' = WRecvInit
  /\ wname' = ""
  /\ warchive' = ""
  /\ wfault' = FALSE
  /\ completed' = <<>>
  /\ UNCHANGED <<units, corpus, sled>>

(* ------------------------------ the system ---------------------------- *)

Coordinator ==
  \/ CoordCacheHit \/ CoordDispatch \/ CoordLoopExit
  \/ CoordSendWork
  \/ CoordFetchSource \/ CoordWriteSourceName \/ CoordWriteSourceData
  \/ CoordFinishSources
  \/ CoordLoadDep \/ CoordWriteDepName \/ CoordWriteDepData \/ CoordFinishDeps
  \/ CoordWriteOverlayName \/ CoordWriteOverlayData \/ CoordFinishOverlays
  \/ CoordWriteEnvs \/ CoordReadArchive \/ CoordStoreDep \/ CoordTerminate
  \/ CoordProtocolAbort \/ CoordReadEof \/ CoordReadTruncated

Worker ==
  \/ WorkerSend \/ WorkerReadReply \/ WorkerReadRecipe \/ WorkerReadName
  \/ WorkerReadSource \/ WorkerReadDep \/ WorkerReadOverlay \/ WorkerReadEnvs
  \/ WorkerBuild

WorkerFault ==
  \/ WorkerSendWrong \/ WorkerOmit \/ WorkerCrash
  \/ WorkerSendBadHash \/ WorkerTruncate

Next == Coordinator \/ Worker \/ WorkerFault \/ Restart

Spec == Init /\ [][Next]_vars

\* The runs in which the coordinator may also die inside store_dep.
CrashNext == Next \/ CoordStoreDepCrash

CrashSpec == CrashInit /\ [][CrashNext]_vars

\* Runs with the corpus edited between them.
EditNext == Next \/ EditCorpus

EditSpec == Init /\ [][EditNext]_vars

\* The coordinator and the implemented worker take their steps; a deviating
\* worker, a crash and a new run may or may not happen.
FairSpec == Spec /\ WF_vars(Coordinator) /\ WF_vars(Worker)

(* ------------------------- notions of the claims ---------------------- *)

\* The positions of build_recipe and store_dep: a dispatch is under way.
BuildPoints ==
  (ExpectPoints \ {"term"}) \cup {"src_fetch", "dep_load", "store"}

Deps(n) == Range(recipes[n].deps)

\* The nodes reached from n along k or fewer dep edges, n's deps first.
RECURSIVE ReachIn(_, _)
ReachIn(n, k) ==
  IF k = 0 \/ n \notin Nodes THEN {}
  ELSE Deps(n) \cup UNION {ReachIn(d, k - 1) : d \in Deps(n)}

Reach(n) == ReachIn(n, Cardinality(Nodes))

CycleNodes == {n \in Nodes : n \in Reach(n)}
Acyclic == CycleNodes = {}
AllDeclared == \A n \in Nodes : Deps(n) \subseteq Nodes

CompletedNodes == {completed[i].node : i \in DOMAIN completed}

\* Every dep of n was completed before position k of the history.
DepsDoneBefore(n, k) ==
  \A d \in Deps(n) : \E j \in 1..(k - 1) : completed[j].node = d

\* A dispatched build did not succeed: the worker left the protocol or died,
\* or the coordinator panicked.
BuildFailed == wfault \/ cpc = "aborted"

(* ------------------------------ C1 ------------------------------------ *)

RunStart == cpc = "loop" /\ completed = <<>> /\ to_build = NoNode

MainLoopDone ==
  /\ cpc \in {"term", "done"}
  /\ deptree = EmptyMap
  /\ CompletedNodes = Nodes

OnceEach ==
  /\ \A i, j \in DOMAIN completed : completed[i].node = completed[j].node => i = j
  /\ CompletedNodes \cap DOMAIN deptree = {}
  /\ CompletedNodes \cup DOMAIN deptree = Nodes
  /\ cpc \in BuildPoints => to_build \in DOMAIN deptree
  /\ (cpc = "done" /\ Acyclic /\ AllDeclared) => deptree = EmptyMap

\* C1: over an acyclic graph whose deps are all declared, a run in which no
\* dispatched build fails (the worker keeps to the protocol and the
\* coordinator does not abort) reaches the end of the main loop with every
\* node completed; a node is completed at most once, a node being built is
\* still in the graph (so it has not been dispatched before), the completed
\* nodes and the graph partition the corpus, and the graph is empty when the
\* terminate byte has been sent.
SchedulerCompleteness ==
  /\ []OnceEach
  /\ (RunStart /\ Acyclic /\ AllDeclared) ~> (MainLoopDone \/ BuildFailed)

\* A run over two nodes ends with one taken from the cache and one built.
SchedulerCompletenessWitness ==
  /\ cpc = "done"
  /\ ~wfault
  /\ Len(completed) = 2
  /\ \E i, j \in DOMAIN completed :
       completed[i].by = "cache" /\ completed[j].by = "build"
  /\ deptree = EmptyMap

(* ------------------------------ C2 ------------------------------------ *)

CyclesRemain ==
  /\ CycleNodes \subseteq DOMAIN deptree
  /\ cpc \in {"term", "done"} => CycleNodes \subseteq RemainingPackages
  /\ AllDeclared => cerr # "panic"

TerminateStep ==
  (cpc = "term" /\ cpc' = "done") =>
    /\ w2c # <<>>
    /\ IsStatus(Head(w2c), ReadyForWork)
    /\ c2w' = Append(c2w, U8(1))

\* C2: over a graph with a cycle the run still ends: unless a build fails,
\* the main loop exits and the coordinator answers the next ReadyForWork
\* with the byte 1; the nodes on a cycle never leave the graph, so they are
\* among the remaining packages at that point, and the cycle never sends
\* the hash computation into a panic.
CyclicTermination ==
  /\ []CyclesRemain
  /\ [][TerminateStep]_vars
  /\ (RunStart /\ ~Acyclic) ~> (cpc = "done" \/ BuildFailed)

\* A run over a two-node cycle has sent the terminate byte.
CyclicTerminationWitness ==
  /\ cpc = "done"
  /\ Cardinality(CycleNodes) = 2
  /\ RemainingPackages = CycleNodes
  /\ c2w # <<>>
  /\ ~wfault

(* ------------------------------ C3 ------------------------------------ *)

\* C3: a node is completed, or is being built, only when every dep it
\* declares has completed earlier in this run, and the node the main loop
\* takes next has an empty set of unsatisfied deps; in the chain a:1 -> b:1,
\* b:1 completes before a:1.
DependencyOrdering ==
  /\ \A i \in DOMAIN completed : DepsDoneBefore(completed[i].node, i)
  /\ cpc \in BuildPoints => DepsDoneBefore(to_build, Len(completed) + 1)
  /\ cpc \in BuildPoints => deptree[to_build] = {}
  /\ \A n \in DOMAIN deptree : deptree[n] = Deps(n) \ CompletedNodes

\* The chain a:1 -> b:1 has completed, b:1 first.
DependencyOrderingWitness ==
  /\ "a:1" \in Nodes /\ "b:1" \in Nodes
  /\ recipes["a:1"].deps = <<"b:1">>
  /\ Len(completed) = 2
  /\ completed[1].node = "b:1"
  /\ completed[2].node = "a:1"

(* ------------------------------ C4 ------------------------------------ *)

H_eq(n) == get_equiv_hash(n, EQUIV_CACHE, sled, {}).val
H_d(n) == get_depd_hash(n, EQUIV_CACHE, sled, {}).val
H_r(n) == get_recipe_hash(n)

NextReady == First(ready_to_build(deptree))

HitCase ==
  /\ cpc = "loop"
  /\ ready_to_build(deptree) # {}
  /\ IsHash(H_eq(NextReady))
  /\ dep_path(H_eq(NextReady)) \in DOMAIN fs

CacheHitStep ==
  (HitCase /\ coord' # coord) =>
    /\ deptree' = [k \in DOMAIN deptree \ {NextReady} |-> deptree[k] \ {NextReady}]
    /\ cpc' = "loop"
    /\ to_build' = to_build
    /\ stream' = stream
    /\ store' = store

\* C4: when the node the main loop takes has an equivalence hash and the
\* artefact file of that hash exists, the coordinator's step removes the
\* node from the graph, stays in the main loop, neither reads nor writes
\* the worker connection, and leaves equiv.sled and the build cache alone.
CacheHitFrame == [][CacheHitStep]_vars

\* A node has been taken from the cache while the worker was waiting with
\* its ReadyForWork on the connection.
CacheHitFrameWitness ==
  /\ \E i \in DOMAIN completed : completed[i].by = "cache"
  /\ cpc = "loop"
  /\ w2c # <<>>
  /\ sled # EmptyMap

(* ------------------------------ C5 ------------------------------------ *)

\* C5: a run that follows a run that completed every node, over the same
\* corpus, equiv.sled and build cache, dispatches nothing: it never enters
\* build_recipe, every node it completes is a cache hit, and it ends with
\* an empty graph.
CacheIdempotence ==
  prevRun = "complete" =>
    /\ \A i \in DOMAIN completed : completed[i].by = "cache"
    /\ cpc \notin BuildPoints
    /\ cpc \in {"term", "done"} => RemainingPackages = {}

(* ------------------------------ C6 ------------------------------------ *)

\* C6: for every node built in this run with archive bytes T, get_equiv_hash
\* returns SHA256(T) from store_dep on, and the file at dep_path(SHA256(T))
\* holds exactly T.
EquivalenceRoundTrip ==
  \A i \in DOMAIN completed :
    completed[i].by = "build" =>
      /\ H_eq(completed[i].node) = sha256(completed[i].archive)
      /\ dep_path(sha256(completed[i].archive)) \in DOMAIN fs
      /\ fs[dep_path(sha256(completed[i].archive))] = completed[i].archive

(* ------------------------------ C7 ------------------------------------ *)

\* C7: at every point of a run, get_equiv_hash answers with the in-memory
\* cache what it answers with the cache dropped.
EquivCachePureOptimisation ==
  \A n \in Nodes :
    H_eq(n) = get_equiv_hash(n, EmptyMap, sled, {}).val

(* ------------------------------ C8 ------------------------------------ *)

\* C8, as the spec states it: the dep-closure hash of a node is the one an
\* execution with the same recipe files and an empty equiv.sled, build cache
\* and in-memory cache computes (the recipe hash reads the recipe alone).
HashDeterminism ==
  \A n \in Nodes : H_d(n) = get_depd_hash(n, EmptyMap, EmptyMap, {}).val

HashStep ==
  \A n \in Nodes :
    /\ H_r(n)' = H_r(n)
    /\ (\A d \in Deps(n) : H_eq(d)' = H_eq(d)) => H_d(n)' = H_d(n)

\* C8, amended: over fixed recipe files the recipe hash is the same in every
\* state, whatever happens to equiv.sled, the build cache and the in-memory
\* cache; the dep-closure hash of a node changes only when the equivalence
\* hash of one of its declared deps changes, so a node without deps has one
\* dep-closure hash throughout.
HashDeterminismAmended == [][HashStep]_vars

\* A node with a dep has a dep-closure hash that the empty equiv.sled would
\* not give it, and a build has been stored since.
HashDeterminismAmendedWitness ==
  \E n \in Nodes :
    /\ Deps(n) # {}
    /\ IsHash(H_d(n))
    /\ get_depd_hash(n, EmptyMap, EmptyMap, {}).val = None
    /\ \E i \in DOMAIN completed : completed[i].by = "build"

(* ------------------------------ C9 ------------------------------------ *)

RECURSIVE EquivTail(_, _)
EquivTail(ds, i) ==
  IF i > Len(ds) THEN "" ELSE "," \o H_eq(ds[i]) \o EquivTail(ds, i + 1)

\* C9: for a node whose hashes can be computed, the dep-closure hash is None
\* exactly when a declared dep has no equivalence hash, and is otherwise the
\* SHA256 of the recipe hash followed by "," and the equivalence hash of
\* each dep in declared order; the equivalence hash is the equiv.sled value
\* at the dep-closure hash, None when there is none.
DepClosureDefinition ==
  \A n \in Nodes :
    H_d(n) # Panic =>
      /\ H_d(n) = None <=> \E d \in Deps(n) : H_eq(d) = None
      /\ H_d(n) # None =>
           H_d(n) = sha256(H_r(n) \o EquivTail(recipes[n].deps, 1))
      /\ H_eq(n) = IF H_d(n) # None /\ H_d(n) \in DOMAIN sled
                   THEN sled[H_d(n)]
                   ELSE None

(* ------------------------------ C10 ----------------------------------- *)

ExpectedByteAhead == w2c # <<>> /\ IsStatus(Head(w2c), Expected(cpc))

LockstepStep ==
  /\ (cpc \in ExpectPoints /\ coord' # coord /\ ~ExpectedByteAhead) =>
       /\ cpc' = "aborted"
       /\ c2w' = c2w
       /\ store' = store
       /\ deptree' = deptree
       /\ completed' = completed
  /\ (cpc = "aborted" /\ cpc' = "aborted") =>
       /\ Len(c2w') <= Len(c2w)
       /\ store' = store
       /\ deptree' = deptree

CPhase ==
  CASE cpc = "work" -> 1
    [] cpc \in {"src_fetch", "src_ready", "src_need", "src_finish"} -> 3
    [] cpc \in {"dep_load", "dep_ready", "dep_need", "dep_finish"} -> 4
    [] cpc \in {"ovl_ready", "ovl_need", "ovl_finish"} -> 5
    [] cpc = "envs" -> 6
    [] cpc \in {"complete", "store"} -> 7
    [] OTHER -> 0

WPhase ==
  CASE wpc \in {"w_work", "w_reply"} -> 1
    [] wpc = "w_recipe" -> 2
    [] wpc \in {"w_src", "w_src_name", "w_src_need", "w_src_data"} -> 3
    [] wpc \in {"w_dep", "w_dep_name", "w_dep_need", "w_dep_data"} -> 4
    [] wpc \in {"w_ovl", "w_ovl_name", "w_ovl_need", "w_ovl_data"} -> 5
    [] wpc \in {"w_envs", "w_envs_data"} -> 6
    [] wpc \in {"w_build", "w_complete"} -> 7
    [] OTHER -> 0

\* The frame each read of the worker takes next.
WReads ==
  CASE wpc = "w_reply" -> "u8"
    [] wpc = "w_recipe" -> "recipe"
    [] wpc \in NamePoints -> "name"
    [] wpc = "w_src_data" -> "contents"
    [] wpc \in {"w_dep_data", "w_ovl_data"} -> "data"
    [] wpc = "w_envs_data" -> "envs"
    [] OTHER -> "nothing"

InRound == cpc \in BuildPoints /\ cpc # "store"

PhasesAgree ==
  InRound =>
    /\ cpc = "work" => wpc \in {"w_work", "w_reply"}
    /\ cpc # "work" => WPhase \in {CPhase - 1, CPhase}
                         \/ (CPhase = 3 /\ wpc = "w_reply")
                         \/ (CPhase = 7 /\ wpc \in {"w_work", "w_reply"})

FramesAgree ==
  /\ c2w # <<>> => Head(c2w).tag = WReads
  /\ (w2c # <<>> /\ cpc \in ExpectPoints) => IsStatus(Head(w2c), Expected(cpc))
  /\ cerr # "protocol"

NoDeadlock ==
  cpc \notin {"done", "aborted"} => ENABLED (Coordinator \/ Worker)

NamesNotEmpty == \A n \in Nodes : "" \notin Range(recipes[n].source)

SessionState == PhasesAgree /\ FramesAgree /\ NoDeadlock

\* C11, as the claim states it, for every recipe: while the worker is the
\* implemented one, coordinator and worker are in the same or in adjacent
\* phases, every frame on the connection is the one its reader takes next,
\* no assert on a status byte fails and one of the two can take a step.
SessionAgreement == ~wfault => SessionState

LeaveStep ==
  (wpc \in NamePoints /\ wpc' \in {WBreak(wpc), WNeed(wpc)}) =>
    /\ wpc' = WBreak(wpc) <=> Head(c2w) = Terminator
    /\ (~wfault /\ NamesNotEmpty /\ InRound) =>
         (wpc' = WBreak(wpc) <=> CPhase = WPhase + 1)

\* C11, amended: the same for every recipe whose source names are not empty,
\* and the worker leaves a stream in the step that reads the zero-length
\* name, which is there exactly when the coordinator has left that stream.
SessionAgreementAmended ==
  /\ [](~wfault /\ NamesNotEmpty => SessionState)
  /\ [][LeaveStep]_vars

\* The implemented pair is in the overlay stream of a round with sources,
\* a dep and overlay files, the terminator of the dep stream behind them.
SessionAgreementAmendedWitness ==
  /\ ~wfault
  /\ cpc = "ovl_need"
  /\ wpc = "w_ovl_data"
  /\ Len(recipes[to_build].source) > 0
  /\ Len(recipes[to_build].deps) > 0
  /\ NamesNotEmpty

(* ------------------------------ C12 ----------------------------------- *)

RepliesOne == Len(c2w') = Len(c2w) + 1 /\ IsStatus(c2w'[Len(c2w')], 1)

HandshakeStep ==
  /\ (Len(c2w') > Len(c2w) /\ IsStatus(c2w'[Len(c2w')], 1)) =>
       /\ cpc = "term" /\ cpc' = "done"
       /\ ready_to_build(deptree) = {}
       /\ IsStatus(Head(w2c), ReadyForWork)
       /\ RepliesOne
  /\ (cpc = "term" /\ cpc' = "done") => RepliesOne
  /\ (cpc = "done" /\ cpc' = "done") => coord' = coord /\ Len(c2w') <= Len(c2w)
  /\ (wpc = "w_reply" /\ c2w # <<>> /\ c2w' = Tail(c2w) /\ coord' = coord) =>
       /\ wpc' = "w_exit" <=> IsStatus(Head(c2w), 1)
       /\ wpc' = "w_exit" => wrecv'.recipe = ""
  /\ (wpc = "w_exit" /\ cpc' # "loop") => worker' = worker /\ stream' = stream

\* The whole session over an empty corpus, state by state.
EmptyCorpusSession ==
  (Nodes = {} /\ ~wfault) =>
    \/ /\ cpc \in {"loop", "term"}
       /\ c2w = <<>>
       /\ \/ wpc = "w_work" /\ w2c = <<>>
          \/ wpc = "w_reply" /\ Len(w2c) = 1 /\ IsStatus(w2c[1], ReadyForWork)
    \/ /\ cpc = "done"
       /\ w2c = <<>>
       /\ \/ wpc = "w_reply" /\ Len(c2w) = 1 /\ IsStatus(c2w[1], 1)
          \/ wpc = "w_exit" /\ c2w = <<>>

\* C12: the byte 1 is written only by the step that ends the run, on a
\* ReadyForWork read when no node is ready, and once: after it the
\* coordinator does nothing more; the worker that reads 1 leaves its loop
\* (it reads no recipe) and does nothing more; over an empty corpus the
\* connection carries one ReadyForWork and one 1; and once the main loop has
\* ended the reply is sent, and read, unless the worker fails.
TerminationHandshake ==
  /\ [][HandshakeStep]_vars
  /\ []EmptyCorpusSession
  /\ (cpc = "term") ~> (cpc = "done" \/ BuildFailed)
  /\ (cpc = "done") ~> (wpc = "w_exit" \/ wfault \/ cpc # "done")

\* The session over an empty corpus has ended on both sides.
TerminationHandshakeWitness ==
  /\ Nodes = {}
  /\ cpc = "done"
  /\ wpc = "w_exit"
  /\ ~wfault

(* ------------------------------ C13 ----------------------------------- *)

\* An archive has left the worker and is not yet in build-cache and
\* equiv.sled: it is on the connection, or received and not yet stored.
Unstored ==
  \/ cpc = "store"
  \/ \E i \in DOMAIN w2c : w2c[i].tag = "data"

\* The worker is executing a build, or has its archive still to send.
Building == wpc \in {"w_build", "w_complete"}

\* The archive of a build of this run is in build-cache/build and equiv.sled.
Stored(c) ==
  /\ dep_path(sha256(c.archive)) \in DOMAIN fs
  /\ fs[dep_path(sha256(c.archive))] = c.archive
  /\ \E k \in DOMAIN sled : sled[k] = sha256(c.archive)

BuiltStored ==
  \A i \in DOMAIN completed : completed[i].by = "build" => Stored(completed[i])

\* C13: while an archive is on the connection or not yet stored, the worker
\* is waiting for the reply to its next ReadyForWork; while the worker
\* builds, the coordinator waits for the archive of that very recipe, no
\* other archive is outstanding, and every archive built earlier in the run
\* is in build-cache/build and in equiv.sled.
StrictSerialisation ==
  ~wfault =>
    /\ Unstored => wpc \in {"w_work", "w_reply"}
    /\ Building =>
         /\ cpc = "complete"
         /\ wrecv.recipe = to_build
         /\ ~Unstored
         /\ BuiltStored
         /\ to_build \notin CompletedNodes

\* The worker builds the second recipe of a run.
StrictSerialisationWitness ==
  /\ ~wfault
  /\ wpc = "w_build"
  /\ \E i \in DOMAIN completed : completed[i].by = "build"

(* ------------------------------ C14 ----------------------------------- *)

\* The files of build-cache/build.
BuildCache(f) == [p \in {q \in DOMAIN f : q[2] = "build"} |-> f[p]]

\* The round ends in an abort before the archive has been read in full.
FailsBeforeArchive ==
  /\ cpc \in BuildPoints \ {"store"}
  /\ cpc' = "aborted"

AtomicityStep ==
  /\ FailsBeforeArchive =>
       /\ BuildCache(fs') = BuildCache(fs)
       /\ sled' = sled
       /\ to_build \in DOMAIN deptree'
       /\ completed' = completed /\ to_build \notin CompletedNodes
  /\ (BuildCache(fs') # BuildCache(fs) /\ cpc \notin {"done", "aborted"}) =>
       /\ cpc = "store"
       /\ fs' = Insert(fs, dep_path(sha256(buf)), buf)
  /\ sled' # sled => cpc = "store"

\* C14: a round that aborts before the coordinator has the whole archive
\* (the worker died, a command failed, the stream was cut short, a status
\* byte was wrong) leaves build-cache/build and equiv.sled as they were and
\* the node unfinished; the only step of a run that writes an artefact file or a sled entry is
\* store_dep, on an archive that was read in full.
FailureAtomicity == [][AtomicityStep]_vars

\* The stream was cut short inside the archive and the coordinator aborted.
FailureAtomicityWitness ==
  /\ cpc = "aborted"
  /\ cerr = "eof"
  /\ wpc = "w_crashed"
  /\ hash_buf # ""

(* ------------------------------ C15 ----------------------------------- *)

\* C15: an archive whose 64-byte hash is not the SHA-256 of its bytes is
\* never stored: the coordinator does not reach store_dep with it, and no
\* build recorded in build-cache and equiv.sled has such a hash.
MismatchedHashFatal ==
  /\ cpc = "store" => hash_buf = sha256(buf)
  /\ \A i \in DOMAIN completed :
       completed[i].by = "build" =>
         completed[i].hash = sha256(completed[i].archive)

(* ------------------------ sanitize_path (lib.rs) ---------------------- *)

\* No run: no recipes, no coordinator or worker step to take.
RunIdle ==
  /\ recipes = EmptyMap /\ overlays = EmptyMap /\ envfile = <<>>
  /\ sources_yaml = ""
  /\ fs = EmptyMap /\ sled = EmptyMap /\ EQUIV_CACHE = EmptyMap
  /\ deptree = EmptyMap /\ cpc = "done" /\ to_build = NoNode /\ cidx = 0
  /\ buf = "" /\ hash_buf = "" /\ cerr = ""
  /\ w2c = <<>> /\ c2w = <<>>
  /\ wpc = "w_exit" /\ wrecv = WRecvInit /\ wname = "" /\ warchive = ""
  /\ wfault = FALSE /\ completed = <<>> /\ prevRun = "none"

\* The segments of the argument: a path string is its segments joined by
\* '/', so "/foo" is <<"", "foo">>, "./a/./b" is <<".", "a", ".", "b">>, "/"
\* is <<"", "">> and "" is <<>>.
Segs == {"", ".", "..", "a", "b", "etc", "foo"}
Paths == UNION {[1..k -> Segs] : k \in 0..MaxSegs}

RootDir == "/"
CurDir == "."
ParentDir == ".."

has_root(segs) == Len(segs) >= 2 /\ segs[1] = ""

\* Path::components: the root, then the segments; empty segments and "."
\* are left out, except a "." that begins a relative path.
RECURSIVE body_components(_, _)
body_components(segs, i) ==
  IF i > Len(segs) THEN <<>>
  ELSE IF segs[i] = "" \/ (segs[i] = CurDir /\ i > 1)
       THEN body_components(segs, i + 1)
       ELSE <<segs[i]>> \o body_components(segs, i + 1)

components(segs) ==
  IF has_root(segs) THEN <<RootDir>> \o body_components(segs, 2)
  ELSE body_components(segs, 1)

Front(out) == SubSeq(out, 1, Len(out) - 1)

\* path_clean::clean, as lib.rs line 132 calls it: "." is dropped, ".."
\* removes the name before it, is dropped after the root and is kept at the
\* front of a relative path; nothing left is ".".
RECURSIVE clean_loop(_, _, _)
clean_loop(comps, i, out) ==
  IF i > Len(comps) THEN out
  ELSE LET comp == comps[i] IN
    IF comp = CurDir THEN clean_loop(comps, i + 1, out)
    ELSE IF comp = ParentDir
    THEN IF out # <<>> /\ out[Len(out)] = RootDir
         THEN clean_loop(comps, i + 1, out)
         ELSE IF out # <<>> /\ out[Len(out)] # ParentDir
         THEN clean_loop(comps, i + 1, Front(out))
         ELSE clean_loop(comps, i + 1, Append(out, comp))
    ELSE clean_loop(comps, i + 1, Append(out, comp))

clean(comps) ==
  LET out == clean_loop(comps, 1, <<>>)
  IN  IF out = <<>> THEN <<CurDir>> ELSE out

is_absolute(comps) == comps # <<>> /\ comps[1] = RootDir

\* A strip_prefix("/") that strips nothing.
strip_nothing(comps) == comps

\* strip_prefix("/") of an absolute path.
strip_prefix(comps) == Tail(comps)

\* Path::starts_with, by components.
starts_with(comps, comp) == comps # <<>> /\ comps[1] = comp

Returned(path) == [state |-> "ok", path |-> path]
Panicked == [state |-> "panic", path |-> <<>>]

\* A sanitize_path without its assert.
sanitize_path_unchecked(segs) ==
  LET c == clean(components(segs))
      q == IF is_absolute(c) THEN strip_prefix(c) ELSE c
  IN  IF q = <<CurDir>> THEN Returned(<<>>) ELSE Returned(q)

\* lib.rs 131-142.
sanitize_path(segs) ==
  LET c == clean(components(segs))
      q == IF is_absolute(c) THEN strip_prefix(c) ELSE c
  IN  IF starts_with(q, ParentDir) THEN Panicked
      ELSE IF q = <<CurDir>> THEN Returned(<<>>)
      ELSE Returned(q)

\* Path::join: an absolute path replaces the base.
join(base, comps) == IF is_absolute(comps) THEN comps ELSE base \o comps

PathInit ==
  /\ RunIdle
  /\ ExtractIdle
  /\ StepIdle
  /\ FnIdle
  /\ path_arg \in Paths
  /\ path_ret = NotCalled

\* One call of sanitize_path.
Sanitize ==
  /\ path_ret = NotCalled
  /\ path_ret' = sanitize_path(path_arg)
  /\ UNCHANGED <<run, path_arg, extractv, stepv, fnv>>

PathNext == Sanitize

PathSpec == PathInit /\ [][PathNext]_vars

(* ------------------------------ C16 ----------------------------------- *)

\* The root the result is joined to (work_dir, the target of an extraction).
BuildRoot == <<RootDir, "work">>

\* q lies within base: cleaned, it is base followed by names only.
Within(base, q) ==
  LET c == clean(q)
  IN  /\ Len(c) >= Len(base)
      /\ SubSeq(c, 1, Len(base)) = base
      /\ ParentDir \notin Range(c)

\* C16: whenever sanitize_path returns, its result has no ".." and no "."
\* component and no root, and the root joined with it lies within the
\* root; the empty path and "." give the empty path.
PathSafety ==
  /\ path_ret.state = "ok" =>
       /\ ParentDir \notin Range(path_ret.path)
       /\ CurDir \notin Range(path_ret.path)
       /\ RootDir \notin Range(path_ret.path)
       /\ "" \notin Range(path_ret.path)
       /\ Within(BuildRoot, join(BuildRoot, path_ret.path))
  /\ (path_ret.state # "none" /\ path_arg \in {<<>>, <<CurDir>>}) =>
       path_ret = Returned(<<>>)

\* sanitize_path has returned on an absolute path that climbs above its root.
PathSafetyWitness ==
  /\ path_ret.state = "ok"
  /\ path_arg = <<"", "a", "..", "..">>

(* ------------------------------ C17 ----------------------------------- *)

DotDot == <<"..">>
SlashFoo == <<"", "foo">>
DotADotB == <<".", "a", ".", "b">>
AUpUpEtc == <<"a", "..", "..", "etc">>

\* C17 as the spec has it: "..", "/foo" and "./a/./b" are normalised,
\* "a/../../etc" is rejected.
LiteralInputs ==
  path_ret.state # "none" =>
    /\ path_arg = DotDot => path_ret.state = "ok"
    /\ path_arg = SlashFoo => path_ret = Returned(<<"foo">>)
    /\ path_arg = DotADotB => path_ret = Returned(<<"a", "b">>)
    /\ path_arg = AUpUpEtc => path_ret = Panicked

\* C17, amended: "/foo" and "./a/./b" are normalised to foo and a/b, which
\* lie within the root; ".." and "a/../../etc" are rejected.
LiteralInputsAmended ==
  path_ret.state # "none" =>
    /\ path_arg = DotDot => path_ret = Panicked
    /\ path_arg = SlashFoo =>
         /\ path_ret = Returned(<<"foo">>)
         /\ Within(BuildRoot, join(BuildRoot, path_ret.path))
    /\ path_arg = DotADotB =>
         /\ path_ret = Returned(<<"a", "b">>)
         /\ Within(BuildRoot, join(BuildRoot, path_ret.path))
    /\ path_arg = AUpUpEtc => path_ret = Panicked

\* sanitize_path has been called on "..".
LiteralInputsAmendedWitness ==
  /\ path_arg = DotDot
  /\ path_ret.state = "panic"

(* ------------------------------ C18 ----------------------------------- *)

Names(segs, k) == {i \in 1..k : segs[i] \notin {"", CurDir, ParentDir}}
Ups(segs, k) == {i \in 1..k : segs[i] = ParentDir}

\* Read from the left, a relative path has at some point more ".." than
\* names before them.
Escapes(segs) ==
  /\ ~has_root(segs)
  /\ \E k \in 1..Len(segs) :
       Cardinality(Ups(segs, k)) > Cardinality(Names(segs, k))

Cleaned(segs) ==
  LET c == clean(components(segs))
  IN  IF is_absolute(c) THEN Tail(c) ELSE c

\* C18: sanitize_path panics exactly on the paths whose cleaned form,
\* without its leading root, starts with "..": the relative paths that
\* climb above where they start, ".." among them; on every other path it
\* returns.
RejectsExactly ==
  path_ret.state # "none" =>
    /\ path_ret.state = "panic" <=>
         (Cleaned(path_arg) # <<>> /\ Cleaned(path_arg)[1] = "..")
    /\ path_ret.state = "panic" <=> Escapes(path_arg)
    /\ path_arg = <<"..">> => path_ret.state = "panic"
    /\ path_ret.state = "ok" => path_ret.path =
         (IF Cleaned(path_arg) = <<".">> THEN <<>> ELSE Cleaned(path_arg))

\* A path that climbs above its start after going down has been rejected.
RejectsExactlyWitness ==
  /\ path_ret.state = "panic"
  /\ path_arg = <<"a", ".", "..", "..">>

(* ---------------------- filter_extract (archives.rs) ------------------ *)

\* The mode of an entry, as far as it lets the owner write (0o755, 0o555).
ReadWrite == "rwx"
ReadOnly == "r-x"
Modes == {ReadWrite, ReadOnly}

\* A node of the file system; w: the mode lets its owner write.
Dir == [kind |-> "dir", link |-> <<>>, w |-> TRUE]
File == [kind |-> "file", link |-> <<>>, w |-> TRUE]
\* A symbolic link with its target, as components.
Link(sl) == [kind |-> "link", link |-> sl, w |-> TRUE]

\* The file system before extraction: the target directory and a directory
\* beside it.
InitTree ==
  (<<RootDir>> :> Dir) @@ (BuildRoot :> Dir) @@ (<<RootDir, "etc">> :> Dir)

IsKind(t, q, kind) == q \in DOMAIN t /\ t[q].kind = kind

parent(q) == IF Len(q) <= 1 THEN q ELSE Front(q)

\* Path resolution as the kernel does it, from directory cur: ".." goes up,
\* a symbolic link is replaced by its target, <<>> stands for an error (too
\* many links, a file where a directory is needed).
RECURSIVE walk(_, _, _, _)
walk(t, cur, rest, hops) ==
  IF rest = <<>> THEN cur
  ELSE LET c == Head(rest)
           nxt == Append(cur, c)
       IN  IF c = RootDir THEN walk(t, <<RootDir>>, Tail(rest), hops)
           ELSE IF c = ParentDir THEN walk(t, parent(cur), Tail(rest), hops)
           ELSE IF c = CurDir THEN walk(t, cur, Tail(rest), hops)
           ELSE IF IsKind(t, nxt, "link")
           THEN IF hops = 0 THEN <<>>
                ELSE walk(t, cur, t[nxt].link \o Tail(rest), hops - 1)
           ELSE IF IsKind(t, nxt, "file") /\ Tail(rest) # <<>> THEN <<>>
           ELSE walk(t, nxt, Tail(rest), hops)

\* Where an absolute path leads, every link followed.
realpath(t, q) == walk(t, <<RootDir>>, Tail(q), MaxHops)

\* Where an absolute path leads when its last component is not followed.
lpath(t, q) ==
  IF Len(q) <= 1 THEN q
  ELSE LET pr == realpath(t, Front(q))
       IN  IF pr = <<>> THEN <<>> ELSE Append(pr, q[Len(q)])

Failed(t) == [ok |-> FALSE, tree |-> t]
Worked(t) == [ok |-> TRUE, tree |-> t]

\* An entry may be made in, or taken out of, the directory d.
may_write(t, d) == privileged \/ t[d].w

\* std::fs::create_dir_all: each prefix in turn is a directory (through
\* links) or is created; anything else in the way is an error.
RECURSIVE create_dir_all_from(_, _, _)
create_dir_all_from(t, q, k) ==
  IF k > Len(q) THEN Worked(t)
  ELSE LET pre == SubSeq(q, 1, k)
           r == realpath(t, pre)
           l == lpath(t, pre)
       IN  IF r = <<>> \/ l = <<>> THEN Failed(t)
           ELSE IF IsKind(t, r, "dir") THEN create_dir_all_from(t, q, k + 1)
           ELSE IF l \in DOMAIN t \/ ~may_write(t, parent(l)) THEN Failed(t)
           ELSE create_dir_all_from(Insert(t, l, Dir), q, k + 1)

create_dir_all(t, q) == create_dir_all_from(t, q, 1)

\* std::fs::File::create: follows links, the last one too; creates or
\* truncates the file.
File_create(t, q) ==
  LET r == realpath(t, q)
  IN  IF r = <<>> \/ ~IsKind(t, parent(r), "dir") \/ IsKind(t, r, "dir")
      THEN Failed(t)
      ELSE IF r \in DOMAIN t
      THEN IF may_write(t, r) THEN Worked(t) ELSE Failed(t)
      ELSE IF ~may_write(t, parent(r)) THEN Failed(t)
      ELSE Worked(Insert(t, r, File))

\* std::os::unix::fs::symlink(sl, q): q itself must not exist.
symlink(t, sl, q) ==
  LET l == lpath(t, q)
  IN  IF l = <<>> \/ ~IsKind(t, parent(l), "dir") \/ l \in DOMAIN t
      THEN Failed(t)
      ELSE IF ~may_write(t, parent(l)) THEN Failed(t)
      ELSE Worked(Insert(t, l, Link(sl)))

\* tar's Entry::unpack of a file: what is at q is removed, the file created.
unpack_file(t, q) ==
  LET l == lpath(t, q)
  IN  IF l = <<>> \/ ~IsKind(t, parent(l), "dir") \/ IsKind(t, l, "dir")
      THEN Failed(t)
      ELSE IF ~may_write(t, parent(l)) THEN Failed(t)
      ELSE Worked(Insert(t, l, File))

\* tar's Entry::unpack of a directory.
unpack_dir(t, q) ==
  LET l == lpath(t, q)
  IN  IF l = <<>> \/ ~IsKind(t, parent(l), "dir") THEN Failed(t)
      ELSE IF IsKind(t, realpath(t, q), "dir") THEN Worked(t)
      ELSE IF l \in DOMAIN t \/ ~may_write(t, parent(l)) THEN Failed(t)
      ELSE Worked(Insert(t, l, Dir))

\* std::fs::set_permissions (chmod): follows links.
set_permissions(t, q, mode) ==
  LET r == realpath(t, q)
  IN  IF r = <<>> \/ r \notin DOMAIN t THEN Failed(t)
      ELSE Worked([t EXCEPT ![r].w = (mode = ReadWrite)])

\* Entries: the name and, for a symbolic link, the target, both as segments.
EntryNames ==
  {<<"x">>, <<"x", "f">>, <<"d", "f">>, <<"..", "..", "etc", "passwd">>}
LinkTargets == {<<"d">>, <<"..", "etc">>, <<"", "etc">>}
Entries ==
  [name : EntryNames, kind : {"file", "dir"}, sl : {<<>>}, mode : Modes]
    \cup [name : EntryNames, kind : {"symlink"}, sl : LinkTargets,
          mode : {ReadWrite}]

\* source_extract_filter with from and to empty, no include, no clean_root:
\* lines 154-158, sanitize_path over and over.
source_extract_filter(name) == sanitize_path(name)

\* Lines 50-52 and 83-85: filter, then target.join(sanitize_path(path)).
target_path(name) == join(BuildRoot, source_extract_filter(name).path)

\* What one zip entry does to the file system: lines 86-118. The mode of a
\* directory or file is set as soon as the entry is there (110-116).
zip_entry(t, e) ==
  LET q == target_path(e.name) IN
  IF e.kind = "dir"
  THEN LET made == create_dir_all(t, q)
       IN  IF made.ok THEN set_permissions(made.tree, q, e.mode) ELSE made
  ELSE IF e.kind = "file"
  THEN LET made == create_dir_all(t, parent(q))
           out == IF made.ok THEN File_create(made.tree, q) ELSE made
       IN  IF out.ok THEN set_permissions(out.tree, q, e.mode) ELSE out
  ELSE IF has_root(e.sl) THEN Failed(t)
  ELSE symlink(t, components(e.sl), q)

\* What one tar entry does to the file system: lines 53-54. Entry::unpack
\* sets the mode of the directory or file it has made.
tar_entry(t, e) ==
  LET q == target_path(e.name)
      made == create_dir_all(t, parent(q))
      out == IF e.kind = "dir" THEN unpack_dir(made.tree, q)
             ELSE unpack_file(made.tree, q)
  IN  IF ~made.ok THEN made
      ELSE IF e.kind = "symlink"
      THEN symlink(made.tree, components(e.sl), q)
      ELSE IF out.ok THEN set_permissions(out.tree, q, e.mode) ELSE out

\* The paths a step created or replaced.
Touched(t, t2) ==
  {q \in DOMAIN t2 : q \notin DOMAIN t \/ t2[q] # t[q]}

ExtractInit ==
  /\ RunIdle
  /\ PathIdle
  /\ StepIdle
  /\ FnIdle
  /\ ar_kind \in {"zip", "tar"}
  /\ ar_entries \in UNION {[1..k -> Entries] : k \in 1..MaxEntries}
  /\ ar_i = 1
  /\ ar_state = "run"
  /\ tree = InitTree
  /\ touched = {}
  /\ privileged \in BOOLEAN

\* One turn of the loop over the entries.
Extract(entry(_, _)) ==
  /\ ar_state = "run"
  /\ ar_i <= Len(ar_entries)
  /\ LET e == ar_entries[ar_i]
         f == source_extract_filter(e.name)
         did == IF f.state = "ok" THEN entry(tree, e) ELSE Failed(tree)
     IN  /\ tree' = did.tree
         /\ touched' = touched \cup Touched(tree, did.tree)
         /\ ar_state' = IF ~did.ok THEN "panic"
                        ELSE IF ar_i = Len(ar_entries) THEN "done"
                        ELSE "run"
         /\ ar_i' = IF did.ok THEN ar_i + 1 ELSE ar_i
  /\ UNCHANGED <<run, pathv, stepv, fnv, ar_kind, ar_entries, privileged>>

\* Lines 60-121.
ZipExtract ==
  /\ ar_kind = "zip"
  /\ Extract(zip_entry)

\* Lines 19-58.
TarExtract ==
  /\ ar_kind = "tar"
  /\ Extract(tar_entry)

ExtractNext == ZipExtract \/ TarExtract

ExtractSpec == ExtractInit /\ [][ExtractNext]_vars

(* ------------------------------ C19 ----------------------------------- *)

InTarget(q) == Len(q) >= Len(BuildRoot) /\ SubSeq(q, 1, Len(BuildRoot)) = BuildRoot

EscapingEntry == <<"..", "..", "etc", "passwd">>

\* C19: whatever the entries, nothing is created or written outside the
\* target directory; and an entry named ../../etc/passwd makes the
\* extraction abort at that entry.
ExtractionContainment ==
  /\ \A q \in touched : InTarget(q)
  /\ \A i \in 1..Len(ar_entries) :
       ar_entries[i].name = EscapingEntry =>
         /\ ar_i <= i
         /\ ar_state # "done"

(* ------------------- do_step and build (worker.rs) -------------------- *)

\* RecipeBuildStep: cmd is what the line is (an assignment K=V, cd, alias,
\* or a command to run); Simple(cmd) is serial and not bash.
Cmds == {"assign", "cd", "alias", "run"}
Simple(cmd) == [cmd |-> cmd, serial |-> TRUE, bash |-> FALSE]
Complex(cmd, serial, bash) == [cmd |-> cmd, serial |-> serial, bash |-> bash]
RecipeBuildStep ==
  {Simple(c) : c \in Cmds}
    \cup {Complex(c, se, b) : c \in Cmds, se \in BOOLEAN, b \in BOOLEAN}

\* Lines 96 and 100-111: with bash the line is handed to bash -c as it is.
Branch(step) == IF step.bash THEN "run" ELSE step.cmd

AtStep(branch) ==
  /\ st_pc = "step"
  /\ st_i <= Len(steps)
  /\ Branch(steps[st_i]) = branch

\* The round of a:1, a recipe without sources, deps or overlays, at the
\* point where the worker has read everything and calls build (worker.rs
\* line 57) and the coordinator waits for BuildComplete (server.rs 233).
AtBuild ==
  /\ recipes = ("a:1" :> [deps |-> <<>>, source |-> <<>>])
  /\ overlays = ("a:1" :> <<>>) /\ envfile = <<>> /\ sources_yaml = ""
  /\ fs = EmptyMap /\ sled = EmptyMap /\ EQUIV_CACHE = EmptyMap
  /\ deptree = InitialDeptree /\ cpc = "complete" /\ to_build = "a:1"
  /\ cidx = 1 /\ buf = "" /\ hash_buf = "" /\ cerr = ""
  /\ w2c = <<>> /\ c2w = <<>>
  /\ wpc = "w_build" /\ wrecv = [WRecvInit EXCEPT !.recipe = "a:1"]
  /\ wname = "" /\ warchive = ""
  /\ wfault = FALSE /\ completed = <<>> /\ prevRun = "none"

StepInit ==
  /\ AtBuild
  /\ PathIdle
  /\ ExtractIdle
  /\ FnIdle
  /\ steps \in UNION {[1..k -> RecipeBuildStep] : k \in 1..MaxSteps}
  /\ st_i = 1
  /\ st_pc = "step"
  /\ children = EmptyMap
  /\ join_handles = <<>>
  /\ env_data = {}
  /\ cur_dir = 0

\* Lines 96-98: env_data.insert.
DoStepAssign ==
  /\ AtStep("assign")
  /\ env_data' = env_data \cup {st_i}
  /\ st_i' = st_i + 1
  /\ UNCHANGED <<run, pathv, extractv, fnv, steps, st_pc, children, join_handles,
                 cur_dir>>

\* Lines 106-109: cur_dir is set, do_step returns.
DoStepCd ==
  /\ AtStep("cd")
  /\ cur_dir' = st_i
  /\ st_i' = st_i + 1
  /\ UNCHANGED <<run, pathv, extractv, fnv, steps, st_pc, children, join_handles,
                 env_data>>

\* Lines 110-112: todo!().
DoStepAlias ==
  /\ AtStep("alias")
  /\ st_pc' = "panic"
  /\ UNCHANGED <<run, pathv, extractv, fnv, steps, st_i, children, join_handles,
                 env_data, cur_dir>>

\* Lines 119-123 and 757-759: wait for the oldest child of join_handles;
\* the assert fails if it did not succeed.
WaitOldest ==
  /\ join_handles # <<>>
  /\ children[Head(join_handles)] # "running"
  /\ IF children[Head(join_handles)] = "ok"
     THEN join_handles' = Tail(join_handles) /\ st_pc' = st_pc
     ELSE join_handles' = join_handles /\ st_pc' = "panic"
  /\ UNCHANGED <<run, pathv, extractv, fnv, steps, st_i, children, env_data,
                 cur_dir>>

\* Line 119: if must_be_serial.
must_join(step) == step.serial

DoStepJoin ==
  /\ AtStep("run")
  /\ must_join(steps[st_i])
  /\ WaitOldest

\* Lines 124-137: the command is spawned; a serial one is waited for, any
\* other is pushed to join_handles.
DoStepSpawn ==
  /\ AtStep("run")
  /\ must_join(steps[st_i]) => join_handles = <<>>
  /\ children' = Insert(children, st_i, "running")
  /\ IF steps[st_i].serial
     THEN st_pc' = "wait" /\ UNCHANGED <<st_i, join_handles>>
     ELSE /\ join_handles' = Append(join_handles, st_i)
          /\ st_i' = st_i + 1
          /\ st_pc' = st_pc
  /\ UNCHANGED <<run, pathv, extractv, fnv, steps, env_data, cur_dir>>

\* A do_step that goes on whatever the exit status of its serial child.
DoStepWaitAny ==
  /\ st_pc = "wait"
  /\ children[st_i] # "running"
  /\ st_pc' = "step"
  /\ st_i' = st_i + 1
  /\ UNCHANGED <<run, pathv, extractv, fnv, steps, children, join_handles,
                 env_data, cur_dir>>

\* Lines 131-134: the serial child has exited; abort if it failed.
DoStepWait ==
  /\ st_pc = "wait"
  /\ children[st_i] # "running"
  /\ IF children[st_i] = "ok"
     THEN st_pc' = "step" /\ st_i' = st_i + 1
     ELSE st_pc' = "abort" /\ st_i' = st_i
  /\ UNCHANGED <<run, pathv, extractv, fnv, steps, children, join_handles,
                 env_data, cur_dir>>

\* A chroothelper process ends, with success or not.
ChildExit ==
  /\ \E c \in DOMAIN children, status \in {"ok", "failed"} :
       /\ children[c] = "running"
       /\ children' = [children EXCEPT ![c] = status]
  /\ UNCHANGED <<run, pathv, extractv, fnv, steps, st_i, st_pc, join_handles,
                 env_data, cur_dir>>

\* build, lines 757-759: after the last step the children left are joined.
BuildJoin ==
  /\ st_pc = "step"
  /\ st_i > Len(steps)
  /\ WaitOldest

\* build packs the artefacts and returns (hash, archive); main, line 65:
\* jh.join().unwrap() has them.
BuildEnd ==
  /\ st_pc = "step"
  /\ st_i > Len(steps)
  /\ join_handles = <<>>
  /\ wpc = "w_build"
  /\ st_pc' = "done"
  /\ warchive' \in Archives
  /\ wpc' = "w_complete"
  /\ UNCHANGED <<corpus, store, coord, stream, wrecv, wname, hist, pathv,
                 extractv, fnv, steps, st_i, children, join_handles, env_data,
                 cur_dir>>

\* The build thread has panicked and main's jh.join().unwrap() (line 65)
\* panics, or do_step has called std::process::abort() (line 133): the
\* worker process ends and its connection closes.
BuildPanic ==
  /\ st_pc \in {"panic", "abort"}
  /\ wpc = "w_build"
  /\ wpc' = "w_crashed"
  /\ wfault' = TRUE
  /\ UNCHANGED <<corpus, store, coord, stream, wrecv, wname, warchive,
                 completed, prevRun, units>>

\* The steps of the build, and what main and the coordinator do with its
\* outcome.
StepNext ==
  \/ DoStepAssign \/ DoStepCd \/ DoStepAlias \/ DoStepJoin \/ DoStepSpawn
  \/ DoStepWait \/ ChildExit \/ BuildJoin \/ BuildEnd \/ BuildPanic
  \/ WorkerSend \/ CoordReadArchive \/ CoordStoreDep \/ CoordReadEof

StepSpec == StepInit /\ [][StepNext]_vars

\* The worker process and the coordinator take the steps they can take; a
\* child may run for ever.
FairStepSpec ==
  /\ StepSpec
  /\ WF_vars(BuildPanic)
  /\ WF_vars(CoordReadEof)

(* ------------------------------ C20 ----------------------------------- *)

Running == {c \in DOMAIN children : children[c] = "running"}

\* The step takes effect: its assignment or its cd is made, or its command
\* is started.
TakesEffect ==
  \/ env_data' # env_data
  \/ cur_dir' # cur_dir
  \/ DOMAIN children' # DOMAIN children

SerialEffect ==
  /\ st_pc = "step"
  /\ st_i <= Len(steps)
  /\ steps[st_i].serial
  /\ TakesEffect

SerialJoinStep ==
  /\ SerialEffect => join_handles = <<>> /\ Running = {}
  /\ st_pc' = "done" => join_handles = <<>> /\ Running = {}

\* C20: a serial step, whatever its command, takes effect only when every
\* non-serial child launched before it has been waited for, and so does the
\* end of the build.
SerialJoin == [][SerialJoinStep]_vars

(* ------------------------------ C21 ----------------------------------- *)

\* The wait for a child has returned a non-zero exit status.
FailureObserved == st_pc \in {"panic", "abort"} /\ "failed" \in Range(children)

CompleteSent ==
  \/ \E i \in DOMAIN w2c : IsStatus(w2c[i], BuildComplete)
  \/ wpc = "w_complete"
  \/ cpc \in {"store", "loop"}

FatalStep ==
  /\ (st_pc = "wait" /\ children[st_i] = "failed" /\ st_pc' # st_pc) =>
       st_pc' = "abort"
  /\ (join_handles # <<>> /\ join_handles' # join_handles
        /\ Len(join_handles') < Len(join_handles)) =>
       children[Head(join_handles)] = "ok"
  /\ FailureObserved =>
       /\ st_i' = st_i /\ st_pc' = st_pc
       /\ DOMAIN children' = DOMAIN children
       /\ env_data' = env_data /\ cur_dir' = cur_dir
       /\ w2c' = w2c
       /\ store' = store /\ deptree' = deptree

\* C21: a child whose wait returns failure ends the build there: no step
\* after it is launched or takes effect; BuildComplete is sent only by a
\* build all of whose children were waited for and succeeded; and once the
\* failure is observed the worker process ends and the coordinator aborts.
CommandFailureFatal ==
  /\ [][FatalStep]_vars
  /\ [](FailureObserved => ~CompleteSent /\ cpc \in {"complete", "aborted"})
  /\ [](CompleteSent =>
          /\ join_handles = <<>>
          /\ \A c \in DOMAIN children : children[c] = "ok")
  /\ FailureObserved ~> (cpc = "aborted")

\* A non-serial child failed, the join found it, the coordinator aborted.
CommandFailureFatalWitness ==
  /\ cpc = "aborted"
  /\ st_pc = "panic"
  /\ join_handles # <<>>
  /\ children[Head(join_handles)] = "failed"

(* ----------------------- env_substitute (lib.rs) ---------------------- *)

\* A string is the sequence of its characters. [a-zA-Z_] and [a-zA-Z_0-9]
\* of the two regular expressions, over the characters in use.
NameStart == {"A", "B", "a", "b", "c", "d", "i", "l", "s", "x", "y"}
NameChar == NameStart \cup {"1"}

Backslash == "\\"

Value(text) == [state |-> "ok", text |-> text]
Fatal == [state |-> "panic", text |-> <<>>]
Hangs == [state |-> "loop", text |-> <<>>]

\* [a-zA-Z_0-9]* is greedy: the last character of the name that starts at i.
RECURSIVE name_end(_, _)
name_end(text, i) ==
  IF i < Len(text) /\ text[i + 1] \in NameChar
  THEN name_end(text, i + 1)
  ELSE i

\* The part of the expressions after group 1, matched at d:
\* \$([a-zA-Z_][a-zA-Z_0-9]*) for simple_re (line 148) and
\* \$\{([a-zA-Z_][a-zA-Z_0-9]*)\} for brace_re (line 149). to = 0: no match.
reference_at(re, text, d) ==
  IF re = "simple"
  THEN IF d + 1 <= Len(text) /\ text[d] = "$" /\ text[d + 1] \in NameStart
       THEN [name |-> SubSeq(text, d + 1, name_end(text, d + 1)),
             to |-> name_end(text, d + 1)]
       ELSE [name |-> <<>>, to |-> 0]
  ELSE IF /\ d + 3 <= Len(text) /\ text[d] = "$" /\ text[d + 1] = "{"
          /\ text[d + 2] \in NameStart
          /\ name_end(text, d + 2) < Len(text)
          /\ text[name_end(text, d + 2) + 1] = "}"
       THEN [name |-> SubSeq(text, d + 2, name_end(text, d + 2)),
             to |-> name_end(text, d + 2) + 1]
       ELSE [name |-> <<>>, to |-> 0]

\* A match of the whole expression that begins at i. Group 1, (^|[^\\]),
\* is empty at the start of the text, else it takes one character that is
\* no backslash.
match_at(re, text, i) ==
  IF i = 1 /\ reference_at(re, text, 1).to # 0
  THEN [g1 |-> <<>>, ref |-> reference_at(re, text, 1)]
  ELSE IF i < Len(text) /\ text[i] # Backslash
       THEN [g1 |-> <<text[i]>>, ref |-> reference_at(re, text, i + 1)]
       ELSE [g1 |-> <<>>, ref |-> [name |-> <<>>, to |-> 0]]

\* Regex::replace_all with the closure of lines 151-158 (161-165): the
\* matches are found from left to right and do not overlap; each is
\* replaced by group 1 and the value of the name; a name that is not in
\* env panics.
RECURSIVE replace_all(_, _, _, _)
replace_all(re, text, i, e) ==
  IF i > Len(text) THEN [out |-> <<>>, changed |-> FALSE, ok |-> TRUE]
  ELSE LET m == match_at(re, text, i) IN
    IF m.ref.to = 0
    THEN LET r == replace_all(re, text, i + 1, e)
         IN  [r EXCEPT !.out = <<text[i]>> \o r.out]
    ELSE IF m.ref.name \notin DOMAIN e
    THEN [out |-> <<>>, changed |-> TRUE, ok |-> FALSE]
    ELSE LET r == replace_all(re, text, m.ref.to + 1, e)
         IN  [out |-> m.g1 \o e[m.ref.name] \o r.out,
              changed |-> TRUE, ok |-> r.ok]

\* The loop of lines 146-170, which ends when a pass has replaced nothing;
\* a loop that is still running after MaxPasses passes never ends.
RECURSIVE substitute_loop(_, _, _)
substitute_loop(text, e, fuel) ==
  IF fuel = 0 THEN Hangs
  ELSE LET s == replace_all("simple", text, 1, e) IN
    IF ~s.ok THEN Fatal
    ELSE LET b == replace_all("brace", s.out, 1, e) IN
      IF ~b.ok THEN Fatal
      ELSE IF ~(s.changed \/ b.changed) THEN Value(b.out)
      ELSE substitute_loop(b.out, e, fuel - 1)

\* lib.rs 144-171.
env_substitute(text, e) == substitute_loop(text, e, MaxPasses)

LineChars == {"$", Backslash, "{", "}", "A", "B"}
Lines ==
  UNION {[1..k -> LineChars] : k \in 0..MaxLine}
    \cup {<<"x", "$", "A", " ", "y">>}

\* The variables A and B, each absent or with one of a few values.
Absent == <<"absent">>
ValuesA ==
  {<<"c">>, <<Backslash>>, <<"$", "B">>, <<"b", "$", "B">>,
   <<"$", "{", "B", "}">>, Absent}
ValuesB == {<<"c">>, <<"$", "A">>, Absent}
Env(a, b) ==
  [n \in {k \in {<<"A">>, <<"B">>} :
            IF k = <<"A">> THEN a # Absent ELSE b # Absent} |->
     IF n = <<"A">> THEN a ELSE b]
Envs == {Env(a, b) : a \in ValuesA, b \in ValuesB}

SubstInit ==
  /\ RunIdle /\ PathIdle /\ ExtractIdle /\ StepIdle /\ ShellIdle
  /\ FilterIdle /\ BuildIdle
  /\ line \in Lines
  /\ env \in Envs
  /\ ret = Unset

\* One call of env_substitute.
EnvSubstitute ==
  /\ ret = Unset
  /\ ret' = env_substitute(line, env)
  /\ UNCHANGED <<run, pathv, extractv, stepv, shellv, filterv, buildv,
                 line, env>>

SubstNext == EnvSubstitute

SubstSpec == SubstInit /\ [][SubstNext]_vars

(* ------------------------------ C22 ----------------------------------- *)

\* $VAR or ${VAR} at d, not immediately preceded by a backslash.
Reference(text, d) ==
  IF reference_at("simple", text, d).to # 0
  THEN reference_at("simple", text, d)
  ELSE reference_at("brace", text, d)

Unescaped(text, d) ==
  /\ Reference(text, d).to # 0
  /\ d = 1 \/ text[d - 1] # Backslash

\* The names that text refers to.
References(text) ==
  {Reference(text, d).name : d \in {i \in DOMAIN text : Unescaped(text, i)}}

\* The names that text refers to, directly or through values, in k hops.
RECURSIVE Needs(_, _, _)
Needs(text, e, k) ==
  IF k = 0 THEN {}
  ELSE References(text) \cup
       UNION {Needs(e[n], e, k - 1) : n \in References(text) \cap DOMAIN e}

NamesDefined == Needs(line, env, 3) \subseteq DOMAIN env
NoSelfReference == \A n \in DOMAIN env : n \notin Needs(env[n], env, 3)

\* text from i on, every unescaped reference replaced by the expansion of
\* its value, to the given depth of values within values.
RECURSIVE Expanded(_, _, _, _)
Expanded(text, i, e, depth) ==
  IF i > Len(text) THEN <<>>
  ELSE IF /\ depth > 0 /\ Unescaped(text, i)
          /\ Reference(text, i).name \in DOMAIN e
       THEN Expanded(e[Reference(text, i).name], 1, e, depth - 1)
              \o Expanded(text, Reference(text, i).to + 1, e, depth)
       ELSE <<text[i]>> \o Expanded(text, i + 1, e, depth)

\* C22: with every name that is referred to defined and no name referring
\* to itself, env_substitute returns the line with each unescaped reference
\* replaced by its fully expanded value, and the result holds no unescaped
\* reference; {A: "b$B", B: "c"} takes "x$A y" to "xbc y"; with a name
\* that is referred to absent, the call is fatal.
SubstitutionFixpoint ==
  (ret # Unset /\ NoSelfReference) =>
    /\ NamesDefined =>
         /\ ret = Value(Expanded(line, 1, env, 3))
         /\ References(ret.text) = {}
    /\ ~NamesDefined => ret = Fatal

(* ------------------------------ C23 ----------------------------------- *)

\* No value holds a '$': what a variable expands to is its value as it is.
PlainValues == \A n \in DOMAIN env : \A i \in DOMAIN env[n] : env[n][i] # "$"

\* C23: a reference is expanded if and only if no backslash stands
\* immediately before it in the line handed in: with values that hold no
\* reference of their own, the result is the line with exactly its unescaped
\* references replaced by their values, whatever these values are.
EscapingRule ==
  (ret # Unset /\ PlainValues /\ References(line) \subseteq DOMAIN env) =>
    ret = Value(Expanded(line, 1, env, 1))

(* ------------------ do_step on its data (worker.rs) ------------------- *)

Space == " "

\* i.split(' ').next().unwrap(), line 95: the text before the first space.
RECURSIVE first_token(_)
first_token(text) ==
  IF text = <<>> \/ Head(text) = Space THEN <<>>
  ELSE <<Head(text)>> \o first_token(Tail(text))

contains(text, ch) == \E i \in DOMAIN text : text[i] = ch

\* A split at the last ch.
rsplit_once(text, ch) ==
  LET i == CHOOSE j \in DOMAIN text :
             text[j] = ch /\ \A k \in (j + 1)..Len(text) : text[k] # ch
  IN  [k |-> SubSeq(text, 1, i - 1), v |-> SubSeq(text, i + 1, Len(text))]

\* str::split_once, line 96: the text before and after the first ch.
split_once(text, ch) ==
  LET i == CHOOSE j \in DOMAIN text :
             text[j] = ch /\ \A k \in 1..(j - 1) : text[k] # ch
  IN  [k |-> SubSeq(text, 1, i - 1), v |-> SubSeq(text, i + 1, Len(text))]

\* shlex::split, line 104, on text without quotes or '#': words are
\* separated by spaces, a backslash takes the next character as it is, and
\* a backslash at the end is an error (None).
RECURSIVE shlex_loop(_, _, _, _, _)
shlex_loop(text, i, word, inword, out) ==
  IF i > Len(text)
  THEN [ok |-> TRUE, words |-> IF inword THEN Append(out, word) ELSE out]
  ELSE IF text[i] = Space
  THEN shlex_loop(text, i + 1, <<>>, FALSE,
                  IF inword THEN Append(out, word) ELSE out)
  ELSE IF text[i] = Backslash
  THEN IF i = Len(text) THEN [ok |-> FALSE, words |-> <<>>]
       ELSE shlex_loop(text, i + 2, Append(word, text[i + 1]), TRUE, out)
  ELSE shlex_loop(text, i + 1, Append(word, text[i]), TRUE, out)

shlex_split(text) == shlex_loop(text, 1, <<>>, FALSE, <<>>)

\* PathBuf::from of a string: its segments.
RECURSIVE segments(_, _)
segments(text, seg) ==
  IF text = <<>> THEN <<seg>>
  ELSE IF Head(text) = "/" THEN <<seg>> \o segments(Tail(text), "")
  ELSE segments(Tail(text), seg \o Head(text))

PathBuf_from(text) == IF text = <<>> THEN <<>> ELSE segments(text, "")

\* Path::join on segments: an absolute path replaces the base.
join_segs(base, segs) == IF has_root(segs) THEN segs ELSE base \o segs

\* chroothelper.rs 19-22: chroot(builddir), chdir("/"), chdir(chdir). The
\* empty path names no directory (chdir fails with ENOENT).
RelativePath(segs) == SelectSeq(segs, LAMBDA seg : seg # "")
can_chdir(segs) ==
  /\ segs # <<>>
  /\ RelativePath(segs) = <<>> \/ RelativePath(segs) \in dirs

\* The steps: text of cd steps, of assignments and of other commands.
Cd == <<"c", "d">>
Alias == <<"a", "l", "i", "a", "s">>
Bash == <<"b", "a", "s", "h">>
DashC == <<"-", "c">>
DirSegs == {"", "a", ".."}
chars_of(seg) ==
  IF seg = ".." THEN <<".", ".">> ELSE IF seg = "" THEN <<>> ELSE <<seg>>
RECURSIVE path_text(_)
path_text(segs) ==
  IF segs = <<>> THEN <<>>
  ELSE IF Len(segs) = 1 THEN chars_of(segs[1])
  ELSE chars_of(segs[1]) \o <<"/">> \o path_text(Tail(segs))
CdArgs ==
  {path_text(segs) : segs \in UNION {[1..k -> DirSegs] : k \in 1..MaxArg}}
    \cup {<<"$", "A">>}
Assignments ==
  {<<"A", "=", "a">>, <<"A", "=", ".", ".">>, <<"A", "=", "$", "A", "/", "a">>,
   <<"A", "=", "a", Space, "$", "B">>, <<"B", "=">> \o Cd,
   <<"B", "=", "a", "=", "b">>, <<"B", "=", Backslash, "$", "A">>}
Commands ==
  {<<"x">>, <<"x", Space, "$", "A">>, <<"$", "B", Space, "a">>,
   <<"x", Space, "A", "=", "a">>, Alias \o <<Space, "x">>, <<>>,
   <<"x", Backslash>>, Cd}
ShellSteps ==
  {[cmd |-> Cd \o <<Space>> \o a, bash |-> FALSE] : a \in CdArgs}
    \cup {[cmd |-> c, bash |-> FALSE] : c \in Assignments \cup Commands}
    \cup {[cmd |-> c, bash |-> TRUE] :
            c \in {<<"A", "=", "a">>, <<"x", Space, "$", "A">>, Cd}}

DirSets == {{}, {<<"a">>}}

\* build, lines 229 and 296-308, for a recipe whose steps are all serial:
\* cur_dir is "/", env_data holds what the coordinator sent.
ShellInit ==
  /\ RunIdle /\ PathIdle /\ ExtractIdle /\ StepIdle /\ SubstIdle
  /\ FilterIdle /\ BuildIdle
  /\ env_map = EmptyMap
  /\ cwd = <<"", "">>
  /\ dirs \in DirSets
  /\ last = NoCall

\* The build goes on: no call has panicked, aborted or hung.
Live == last.did \in {"none", "assign", "cd", "ran"}

\* Line 95.
IsAssignment(st) == contains(first_token(st.cmd), "=") /\ ~st.bash

\* Lines 99-112: the command of a step that is no assignment.
cmd_of(st) ==
  IF st.bash THEN [ok |-> TRUE, words |-> <<Bash, DashC, st.cmd>>]
  ELSE IF env_substitute(st.cmd, env_map).state # "ok"
       THEN [ok |-> FALSE, words |-> <<>>]
       ELSE shlex_split(env_substitute(st.cmd, env_map).text)

Call(st, did, argv) == [step |-> st, did |-> did, argv |-> argv]

\* An assignment that stores the value as it is written.
ShAssignRaw ==
  \E st \in ShellSteps :
    /\ Live
    /\ IsAssignment(st)
    /\ env_map' = Insert(env_map, split_once(st.cmd, "=").k,
                         split_once(st.cmd, "=").v)
    /\ last' = Call(st, "assign", <<>>)
    /\ UNCHANGED <<run, pathv, extractv, stepv, substv, filterv, buildv,
                   cwd, dirs>>

\* Lines 95-98.
ShAssign ==
  \E st \in ShellSteps :
    /\ Live
    /\ IsAssignment(st)
    /\ LET kv == split_once(st.cmd, "=")
           r == env_substitute(kv.v, env_map)
       IN  IF r.state = "ok"
           THEN /\ Len(r.text) <= MaxValue
                /\ env_map' = Insert(env_map, kv.k, r.text)
                /\ last' = Call(st, "assign", <<>>)
           ELSE /\ env_map' = env_map
                /\ last' = Call(st, IF r = Hangs THEN "hang" ELSE "panic", <<>>)
    /\ UNCHANGED <<run, pathv, extractv, stepv, substv, filterv, buildv,
                   cwd, dirs>>

\* Lines 102-104: env_substitute or shlex::split fails, or cmd is empty
\* and cmd[0] is out of bounds.
ShExpandFail ==
  \E st \in ShellSteps :
    /\ Live
    /\ ~IsAssignment(st)
    /\ LET cmd == cmd_of(st)
       IN  /\ ~cmd.ok \/ cmd.words = <<>>
           /\ last' = Call(st, IF ~st.bash
                                  /\ env_substitute(st.cmd, env_map) = Hangs
                               THEN "hang" ELSE "panic", <<>>)
    /\ UNCHANGED <<run, pathv, extractv, stepv, substv, filterv, buildv,
                   env_map, cwd, dirs>>

\* Lines 105-108.
ShCd ==
  \E st \in ShellSteps :
    /\ Live
    /\ ~IsAssignment(st) /\ ~st.bash
    /\ LET cmd == cmd_of(st)
       IN  /\ cmd.ok /\ cmd.words # <<>>
           /\ cmd.words[1] = Cd
           /\ IF Len(cmd.words) < 2
              THEN cwd' = cwd /\ last' = Call(st, "panic", <<>>)
              ELSE LET r == sanitize_path(
                              join_segs(cwd, PathBuf_from(cmd.words[2])))
                   IN  IF r.state = "ok"
                       THEN /\ Len(r.path) <= MaxArg
                            /\ cwd' = r.path
                            /\ last' = Call(st, "cd", <<>>)
                       ELSE cwd' = cwd /\ last' = Call(st, "panic", <<>>)
    /\ UNCHANGED <<run, pathv, extractv, stepv, substv, filterv, buildv,
                   env_map, dirs>>

\* Lines 109-111.
ShAlias ==
  \E st \in ShellSteps :
    /\ Live
    /\ ~IsAssignment(st) /\ ~st.bash
    /\ LET cmd == cmd_of(st)
       IN  /\ cmd.ok /\ cmd.words # <<>>
           /\ cmd.words[1] = Alias
    /\ last' = Call(st, "panic", <<>>)
    /\ UNCHANGED <<run, pathv, extractv, stepv, substv, filterv, buildv,
                   env_map, cwd, dirs>>

\* Lines 114-134, the step being serial: the helper is started with cmd; it
\* fails if it cannot chdir, else the command runs and succeeds or fails.
ShRun ==
  \E st \in ShellSteps :
    /\ Live
    /\ ~IsAssignment(st)
    /\ LET cmd == cmd_of(st)
       IN  /\ cmd.ok /\ cmd.words # <<>>
           /\ st.bash \/ cmd.words[1] \notin {Cd, Alias}
           /\ \/ can_chdir(cwd) /\ last' = Call(st, "ran", cmd.words)
              \/ last' = Call(st, "abort", cmd.words)
    /\ UNCHANGED <<run, pathv, extractv, stepv, substv, filterv, buildv,
                   env_map, cwd, dirs>>

ShellNext == ShAssign \/ ShExpandFail \/ ShCd \/ ShAlias \/ ShRun

ShellSpec == ShellInit /\ [][ShellNext]_vars

(* ------------------------------ C29 ----------------------------------- *)

\* The first '=' of the text of the step that was called.
FirstEq(text) ==
  CHOOSE j \in DOMAIN text : text[j] = "=" /\ \A k \in 1..(j - 1) : text[k] # "="
KeyOf(text) == SubSeq(text, 1, FirstEq(text) - 1)
ValueOf(text) == SubSeq(text, FirstEq(text) + 1, Len(text))

AssignmentStep ==
  LET st == last'.step IN
    /\ (contains(first_token(st.cmd), "=") /\ ~st.bash) =>
         /\ last'.argv = <<>>
         /\ last'.did \in {"assign", "panic", "hang"}
         /\ cwd' = cwd
         /\ \A n \in DOMAIN env_map \ {KeyOf(st.cmd)} :
              n \in DOMAIN env_map' /\ env_map'[n] = env_map[n]
         /\ DOMAIN env_map' \subseteq DOMAIN env_map \cup {KeyOf(st.cmd)}
         /\ IF env_substitute(ValueOf(st.cmd), env_map).state = "ok"
            THEN /\ last'.did = "assign"
                 /\ KeyOf(st.cmd) \in DOMAIN env_map'
                 /\ env_map'[KeyOf(st.cmd)] =
                      env_substitute(ValueOf(st.cmd), env_map).text
            ELSE last'.did # "assign" /\ env_map' = env_map
    /\ st.bash =>
         /\ last'.argv = <<Bash, DashC, st.cmd>>
         /\ last'.did \in {"ran", "abort"}
         /\ env_map' = env_map /\ cwd' = cwd

\* C29: a step whose first token holds '=' and whose bash flag is false
\* sets env_data[K] to env_substitute(V, env_data), K and V being the text
\* before and after the first '=', starts no process and changes neither
\* cur_dir nor another entry of env_data; a step with bash true is never an
\* assignment: it runs ["bash", "-c", text] with the text as written.
AssignmentFrame == [][AssignmentStep]_vars

\* "A=$A/a" with A = "a" has set A to "a/a", and B is as it was.
AssignmentFrameWitness ==
  /\ last.did = "assign"
  /\ last.step.cmd = <<"A", "=", "$", "A", "/", "a">>
  /\ <<"B">> \in DOMAIN env_map
  /\ env_map[<<"A">>] = <<"a", "/", "a">>

(* ------------------------------ C30 ----------------------------------- *)

\* The directory that cur_dir names is there.
DirectoryExists ==
  RelativePath(cwd) = <<>> \/ RelativePath(cwd) \in dirs

\* C30: after a cd step cur_dir holds no ".." and names a directory under
\* the build root that the chroot helper can change to.
CdTargets ==
  last.did = "cd" =>
    /\ \A i \in DOMAIN cwd : cwd[i] # ParentDir
    /\ DirectoryExists => can_chdir(cwd)

(* ---------- the paths filter_extract hands on (archives.rs) ----------- *)

Some(path) == [some |-> TRUE, path |-> path]
Nothing == [some |-> FALSE, path |-> <<>>]

\* A path of components as segments again.
as_segs(comps) ==
  IF ~is_absolute(comps) THEN comps
  ELSE IF Len(comps) = 1 THEN <<"", "">>
  ELSE <<"">> \o Tail(comps)

\* Path::starts_with and Path::strip_prefix, by components.
path_starts_with(comps, base) ==
  Len(base) <= Len(comps) /\ SubSeq(comps, 1, Len(base)) = base
path_strip_prefix(comps, base) == SubSeq(comps, Len(base) + 1, Len(comps))

\* PathBuf::from(name).ancestors().next().unwrap(): the first of the
\* ancestors of a path is the path itself.
first_ancestor(segs) == components(segs)

\* Lines 25-46: the prefix is that of the first entry unless an entry
\* after it has another.
tar_prefix(paths) ==
  IF \A i \in 2..Len(paths) :
       first_ancestor(paths[i]) = first_ancestor(paths[1])
  THEN Some(first_ancestor(paths[1]))
  ELSE Nothing

\* Lines 66-85: each turn of the loop reads by_index(0) again.
zip_prefix(paths) ==
  IF \A i \in 2..Len(paths) :
       first_ancestor(paths[1]) = first_ancestor(paths[1])
  THEN Some(first_ancestor(paths[1]))
  ELSE Nothing

Kept(out) == [state |-> "ok", out |-> out]
FilterPanic == [state |-> "panic", out |-> Nothing]

\* Lines 145-153: include is given and the path, as it is, starts with
\* none of its sanitised paths. (None is the empty set here; Some of an
\* empty list drops every entry and is not among the inputs.)
excluded(f, comps) ==
  /\ f.include # {}
  /\ \A x \in f.include : ~path_starts_with(comps, sanitize_path(x).path)

\* Lines 155-161.
placed(f, comps) ==
  LET p1 == sanitize_path(as_segs(comps))
      fr == sanitize_path(f.from)
      dest == sanitize_path(f.to)
  IN  IF p1.state # "ok" \/ fr.state # "ok" THEN FilterPanic
      ELSE IF ~path_starts_with(p1.path, fr.path) THEN FilterPanic
      ELSE LET p2 == sanitize_path(path_strip_prefix(p1.path, fr.path))
           IN  IF p2.state # "ok" \/ dest.state # "ok" THEN FilterPanic
               ELSE LET p3 == sanitize_path(join(dest.path, p2.path))
                    IN  IF p3.state # "ok" THEN FilterPanic
                        ELSE Kept(Some(p3.path))

\* source_extract_filter, lines 123-163: the closure on path p and prefix.
source_extract_filter_on(f, segs, prefix) ==
  LET comps == components(segs) IN
    IF f.clean_root /\ prefix.some /\ ~path_starts_with(comps, prefix.path)
    THEN FilterPanic
    ELSE LET p == IF f.clean_root /\ prefix.some
                  THEN path_strip_prefix(comps, prefix.path)
                  ELSE comps
         IN  IF \E x \in f.include : sanitize_path(x).state # "ok"
             THEN FilterPanic
             ELSE IF excluded(f, p) THEN Kept(Nothing)
             ELSE placed(f, p)

\* The loop over the entries, lines 48-56 and 86-119, for what the filter
\* returns: it ends at the first entry on which the filter panics.
RECURSIVE filter_all(_, _, _, _, _)
filter_all(kind, f, paths, prefix, i) ==
  IF i > Len(paths)
  THEN [kind |-> kind, state |-> "done", prefix |-> prefix, outs |-> <<>>]
  ELSE LET r == source_extract_filter_on(f, paths[i], prefix) IN
    IF r.state = "panic"
    THEN [kind |-> kind, state |-> "panic", prefix |-> prefix, outs |-> <<>>]
    ELSE LET rest == filter_all(kind, f, paths, prefix, i + 1)
         IN  [rest EXCEPT !.outs = <<r.out>> \o rest.outs]

FilterNames ==
  {<<"p", "">>, <<"p", "f">>, <<"p", "g">>, <<"q", "f">>, <<".", "p", "f">>,
   <<"f">>}
Includes == {{}, {<<"p">>}, {<<"p", "f">>, <<"q">>}}
Filters ==
  [from : {<<>>, <<"p">>}, to : {<<>>, <<"t">>}, include : Includes,
   clean_root : BOOLEAN]

FilterInit ==
  /\ RunIdle /\ PathIdle /\ ExtractIdle /\ StepIdle /\ SubstIdle /\ ShellIdle
  /\ BuildIdle
  /\ names \in UNION {[1..k -> FilterNames] : k \in 1..MaxEntries}
  /\ filter \in Filters
  /\ filtered = Unfiltered

\* tar::Archive::filter_extract, lines 19-58.
TarFilter ==
  /\ filtered = Unfiltered
  /\ filtered' = filter_all("tar", filter, names, tar_prefix(names), 1)
  /\ UNCHANGED <<run, pathv, extractv, stepv, substv, shellv, buildv,
                 names, filter>>

\* ZipArchive::filter_extract, lines 60-121.
ZipFilter ==
  /\ filtered = Unfiltered
  /\ filtered' = filter_all("zip", filter, names, zip_prefix(names), 1)
  /\ UNCHANGED <<run, pathv, extractv, stepv, substv, shellv, buildv,
                 names, filter>>

FilterNext == TarFilter \/ ZipFilter

FilterSpec == FilterInit /\ [][FilterNext]_vars

(* ------------------------------ C24 ----------------------------------- *)

FirstComponents == {components(names[i])[1] : i \in DOMAIN names}

\* The entry without its first component, placed under to.
Stripped(segs) ==
  Some(sanitize_path(join(sanitize_path(filter.to).path,
                          Tail(components(segs)))).path)

\* C24: for tar and for zip, the prefix handed to the filter is Some(c) if
\* every entry has the same first component c and None otherwise; and with
\* clean_root (no include, from empty) the filter takes exactly that
\* component off every entry and does not fail.
CommonPrefix ==
  filtered.state # "none" =>
    /\ Cardinality(FirstComponents) = 1 =>
         /\ filtered.prefix = Some(<<components(names[1])[1]>>)
         /\ (filter.clean_root /\ filter.include = {} /\ filter.from = <<>>) =>
              /\ filtered.state = "done"
              /\ \A i \in DOMAIN names : filtered.outs[i] = Stripped(names[i])
    /\ Cardinality(FirstComponents) # 1 => filtered.prefix = Nothing

(* ------------------------------ C26 ----------------------------------- *)

Sanitized(segs) == sanitize_path(segs).path

\* C26: without clean_root, the filter drops an entry if and only if
\* include is given and sanitize(p) starts with none of the sanitised
\* include paths; any other entry goes to
\* sanitize(sanitize(to) / (sanitize(p) without sanitize(from))).
StandardFilter ==
  (filtered.state = "done" /\ ~filter.clean_root) =>
    \A i \in DOMAIN names :
      filtered.outs[i] =
        IF /\ filter.include # {}
           /\ \A x \in filter.include :
                ~path_starts_with(Sanitized(names[i]), Sanitized(x))
        THEN Nothing
        ELSE Some(Sanitized(join(Sanitized(filter.to),
                    path_strip_prefix(Sanitized(names[i]),
                                      Sanitized(filter.from)))))

(* ------------------------------ C25 ----------------------------------- *)

\* The entry at which the extraction stopped could not be made because an
\* earlier entry had taken the write permission from its directory.
BlockedByMode ==
  /\ ar_state = "panic"
  /\ LET q == target_path(ar_entries[ar_i].name)
     IN  /\ IsKind(tree, parent(q), "dir")
         /\ ~tree[parent(q)].w
         /\ q \notin DOMAIN tree

\* C25: a zip archive's modes are applied only when every entry is there:
\* while entries remain nothing under the target has lost its write
\* permission, and no entry fails because the directory entry before it was
\* not writable.
ZipPermissionOrder ==
  ar_kind = "zip" =>
    /\ ar_state = "run" => \A q \in DOMAIN tree : tree[q].w
    /\ ~BlockedByMode

(* ------------------- build: the pass suffix (worker.rs) --------------- *)

Digits == <<"0", "1", "2", "3", "4", "5", "6", "7", "8", "9">>
Digit == Range(Digits)
digit_value(c) == (CHOOSE i \in 1..10 : Digits[i] = c) - 1

\* u32::MAX, in decimal.
U32Max == <<"4", "2", "9", "4", "9", "6", "7", "2", "9", "5">>

\* The digits of a number without its leading zeros.
RECURSIVE strip_zeros(_)
strip_zeros(ds) ==
  IF Len(ds) > 1 /\ ds[1] = "0" THEN strip_zeros(Tail(ds)) ELSE ds

\* a > b for two numbers of as many digits.
RECURSIVE greater(_, _)
greater(a, b) ==
  IF a = <<>> THEN FALSE
  ELSE IF a[1] # b[1] THEN digit_value(a[1]) > digit_value(b[1])
  ELSE greater(Tail(a), Tail(b))

\* str::parse::<u32>: the number, as its decimal digits, or an error.
parse_u32(ds) ==
  LET n == strip_zeros(ds)
  IN  IF Len(n) > Len(U32Max) \/ (Len(n) = Len(U32Max) /\ greater(n, U32Max))
      THEN [ok |-> FALSE, n |-> <<>>]
      ELSE [ok |-> TRUE, n |-> n]

\* n - 1 for a number n > 0, as decimal digits.
RECURSIVE borrow(_)
borrow(ds) ==
  IF ds[Len(ds)] # "0"
  THEN Front(ds) \o <<Digits[digit_value(ds[Len(ds)])]>>
  ELSE borrow(Front(ds)) \o <<"9">>

minus_one(n) == strip_zeros(borrow(n))

PassSuffix == <<"-", "p", "a", "s", "s">>

\* Regex ^(.*)-pass([0-9]+) matches with the first group ending before i.
pass_at(v, i) ==
  /\ i + Len(PassSuffix) <= Len(v)
  /\ SubSeq(v, i, i + Len(PassSuffix) - 1) = PassSuffix
  /\ v[i + Len(PassSuffix)] \in Digit

\* The end of the run of digits that starts at i.
RECURSIVE digits_end(_, _)
digits_end(v, i) ==
  IF i < Len(v) /\ v[i + 1] \in Digit THEN digits_end(v, i + 1) ELSE i

\* Regex::captures: the first group is greedy, so it ends at the last
\* "-pass" that a digit follows; the second group is the digits after it,
\* whatever follows them.
captures(v) ==
  LET at == {i \in 1..Len(v) : pass_at(v, i)}
      i == CHOOSE j \in at : \A k \in at : k <= j
      d == i + Len(PassSuffix)
  IN  IF at = {} THEN [some |-> FALSE, g1 |-> <<>>, g2 |-> <<>>]
      ELSE [some |-> TRUE, g1 |-> SubSeq(v, 1, i - 1),
            g2 |-> SubSeq(v, d, digits_end(v, d))]

\* recipe.name.split('/').last()
RECURSIVE last_segment(_)
last_segment(n) ==
  IF n = <<>> \/ n[Len(n)] = "/" THEN <<>>
  ELSE last_segment(Front(n)) \o <<n[Len(n)]>>

\* format!("{}-{}", name, version)
format_pkg(n, v) == last_segment(n) \o <<"-">> \o v

PassPanicked == [state |-> "panic", pkg |-> <<>>, pass |-> <<>>]
PassOk(pkg, pass) == [state |-> "ok", pkg |-> pkg, pass |-> pass]

\* Lines 320-347: pkg and pass (pass as the digits pass.to_string() gives,
\* line 389). pass - 1 on a u32 that is 0 panics in a build with overflow
\* checks and wraps in one without.
pkg_and_pass(n, v, dir, checks) ==
  LET c == captures(v)
      parsed == parse_u32(c.g2)
      pkg == IF dir.some THEN dir.text
             ELSE IF c.some THEN format_pkg(n, c.g1) ELSE format_pkg(n, v)
  IN  IF ~c.some THEN PassOk(pkg, <<"0">>)
      ELSE IF ~parsed.ok THEN PassPanicked
      ELSE IF parsed.n = <<"0">>
      THEN IF checks THEN PassPanicked ELSE PassOk(pkg, U32Max)
      ELSE PassOk(pkg, minus_one(parsed.n))

\* The pieces of the versions; the last is u32::MAX + 1.
Pieces ==
  {<<"1">>, <<"0">>, <<"2">>, <<"b">>, PassSuffix,
   <<"4", "2", "9", "4", "9", "6", "7", "2", "9", "6">>}

RECURSIVE flatten(_)
flatten(ps) == IF ps = <<>> THEN <<>> ELSE ps[1] \o flatten(Tail(ps))

Versions ==
  {flatten(ps) : ps \in UNION {[1..k -> Pieces] : k \in 1..MaxPieces}}

RecipeNames == {<<"g">>, <<"a", "/", "g">>}
NoDir == [some |-> FALSE, text |-> <<>>]
PackageDirs == {NoDir, [some |-> TRUE, text |-> <<"d">>]}

PassInit ==
  /\ RunIdle /\ PathIdle /\ ExtractIdle /\ StepIdle /\ SubstIdle /\ ShellIdle
  /\ FilterIdle /\ PhaseIdle /\ ThreadIdle
  /\ recipe_version \in Versions
  /\ recipe_name \in RecipeNames
  /\ package_dir \in PackageDirs
  /\ overflow_checks \in BOOLEAN
  /\ pkg_pass = NoPass

\* build, Piecewise: lines 320-347 and 389.
ParsePass ==
  /\ pkg_pass = NoPass
  /\ pkg_pass' =
       pkg_and_pass(recipe_name, recipe_version, package_dir, overflow_checks)
  /\ UNCHANGED <<run, pathv, extractv, stepv, substv, shellv, filterv, phasev,
                 threadv,
                 recipe_version, recipe_name, package_dir, overflow_checks>>

PassNext == ParsePass

PassSpec == PassInit /\ [][PassNext]_vars

(* ------------------------------ C27 ----------------------------------- *)

\* The version ends in "-pass" and the digits ds: ^(.*)-pass([0-9]+)$.
EndsInPass(v, ds) ==
  /\ ds # <<>> /\ \A i \in DOMAIN ds : ds[i] \in Digit
  /\ Len(v) >= Len(PassSuffix) + Len(ds)
  /\ SubSeq(v, Len(v) - Len(ds) + 1, Len(v)) = ds
  /\ SubSeq(v, Len(v) - Len(ds) - Len(PassSuffix) + 1, Len(v) - Len(ds))
       = PassSuffix

\* The ends of the version.
Tails(v) == {SubSeq(v, i, Len(v)) : i \in 1..Len(v)}

\* n + 1 for a number n, as decimal digits.
RECURSIVE plus_one(_)
plus_one(n) ==
  IF n = <<>> THEN <<"1">>
  ELSE IF n[Len(n)] # "9"
  THEN Front(n) \o <<Digits[digit_value(n[Len(n)]) + 2]>>
  ELSE plus_one(Front(n)) \o <<"0">>

\* The version without the suffix "-pass" ds.
WithoutPass(v, ds) == SubSeq(v, 1, Len(v) - Len(ds) - Len(PassSuffix))

\* C27: once the pass suffix is parsed, pkg is the last segment of the name,
\* "-", and the version without its "-pass<N>" suffix, and revision is N - 1;
\* for a version that does not end in "-pass<N>" pkg is the last segment of the
\* name, "-", and the version, and revision is 0 (stated for recipes without
\* a package_dir).
PassSuffixRule ==
  (pkg_pass # NoPass /\ ~package_dir.some) =>
    /\ pkg_pass.state = "ok"
    /\ \A ds \in Tails(recipe_version) :
         EndsInPass(recipe_version, ds)
           => /\ pkg_pass.pkg =
                   format_pkg(recipe_name, WithoutPass(recipe_version, ds))
              /\ plus_one(pkg_pass.pass) = strip_zeros(ds)
    /\ (\A ds \in Tails(recipe_version) : ~EndsInPass(recipe_version, ds))
         => /\ pkg_pass.pkg = format_pkg(recipe_name, recipe_version)
            /\ pkg_pass.pass = <<"0">>

(* ---------------- build: the phases of a Piecewise recipe ------------- *)

\* The steps are Simple or Complex, cmd being the words of the command.

PhaseNames ==
  <<"unpack", "prepare", "configure", "compile", "install", "postprocess">>
Install == 5
Postprocess == 6

\* "bash -exc '. /steps/helpers.sh; <fn>'"
helper(fn) == <<"bash", "-exc", ". /steps/helpers.sh; " \o fn>>
default_helper(ph) == helper("default_src_" \o PhaseNames[ph])

\* A default step that forgets the flags of the step it replaces.
default_step_plain(st, ph) ==
  IF st.cmd = <<"default">> THEN Simple(default_helper(ph)) ELSE st

\* The match on a declared step, lines 401-441 (and the same for each
\* phase): a Simple step is a serial step that is not bash.
default_step(st, ph) ==
  IF st = Simple(<<"default">>)
  THEN Simple(default_helper(ph))
  ELSE IF st.cmd = <<"default">>
  THEN Complex(default_helper(ph), st.serial, st.bash)
  ELSE st

\* The package of the recipe, unpack_dirname, $DESTDIR.
Pkg == "p"
unpack_dirname == "d"
StepsDir == <<"", "steps", Pkg>>
BuildDir == <<"", "steps", Pkg, "build">>
DestDir == <<"", "dest">>
RepoDir == <<"", "external", "repo">>

\* A call of do_step: the phase it is made for, the step, cur_dir.
call(phase, st, dir) == [phase |-> phase, step |-> st, dir |-> dir]

\* do_step, lines 105-108: what a step does to cur_dir.
dir_after(st, dir) ==
  IF ~st.bash /\ st.cmd[1] = "cd"
  THEN sanitize_path(join_segs(dir, <<st.cmd[2]>>)).path
  ELSE dir

PwSteps ==
  {Simple(<<"default">>), Complex(<<"default">>, FALSE, TRUE),
   Simple(<<"make">>), Simple(<<"cd", "x">>)}

PhaseInit ==
  /\ RunIdle /\ PathIdle /\ ExtractIdle /\ StepIdle /\ SubstIdle /\ ShellIdle
  /\ FilterIdle /\ PassIdle /\ ThreadIdle
  /\ declared \in SUBSET DOMAIN PhaseNames
  /\ body \in UNION {[1..k -> PwSteps] : k \in 0..MaxBody}
  /\ destdir \in BOOLEAN
  /\ pw_pc = "start"
  /\ pw_phase = 0
  /\ pw_i = 0
  /\ pw_cur_dir = StepsDir
  /\ issued = <<>>

\* Lines 390-398: mkdir build, then cur_dir = /steps/<pkg>/build.
PwMkdir ==
  /\ pw_pc = "start"
  /\ issued' = <<call("mkdir", Simple(<<"mkdir", "build">>), pw_cur_dir)>>
  /\ pw_cur_dir' = BuildDir
  /\ pw_pc' = "phase" /\ pw_phase' = 1 /\ pw_i' = 1
  /\ UNCHANGED <<run, pathv, extractv, stepv, substv, shellv, filterv, passv,
                 threadv,
                 declared, body, destdir>>

\* What follows a phase: lines 621-624 come before install and want DESTDIR
\* in env_data; src_pkg follows postprocess.
after_phase(ph) ==
  IF ph = Install - 1 /\ ~destdir THEN [pc |-> "panic", phase |-> ph]
  ELSE IF ph = Postprocess THEN [pc |-> "src_pkg", phase |-> ph]
  ELSE [pc |-> "phase", phase |-> ph + 1]

\* One turn of the loop over the steps of a declared phase.
PwDeclared ==
  /\ pw_pc = "phase" /\ pw_phase \in declared /\ pw_i <= Len(body)
  /\ LET st == default_step(body[pw_i], pw_phase)
     IN  /\ issued' = Append(issued, call(PhaseNames[pw_phase], st, pw_cur_dir))
         /\ pw_cur_dir' = dir_after(st, pw_cur_dir)
  /\ pw_i' = pw_i + 1
  /\ UNCHANGED <<run, pathv, extractv, stepv, substv, shellv, filterv, passv,
                 threadv,
                 declared, body, destdir, pw_pc, pw_phase>>

\* The loop over the steps of a declared phase ends.
PwPhaseEnd ==
  /\ pw_pc = "phase" /\ pw_phase \in declared /\ pw_i > Len(body)
  /\ pw_pc' = after_phase(pw_phase).pc
  /\ pw_phase' = after_phase(pw_phase).phase
  /\ pw_i' = 1
  /\ UNCHANGED <<run, pathv, extractv, stepv, substv, shellv, filterv, passv,
                 threadv,
                 declared, body, destdir, pw_cur_dir, issued>>

\* The else branch of a phase: its default helper; after unpack, lines
\* 453-454, cur_dir is joined with unpack_dirname.
PwOmitted ==
  /\ pw_pc = "phase" /\ pw_phase \notin declared
  /\ issued' = Append(issued, call(PhaseNames[pw_phase],
                                   Simple(default_helper(pw_phase)),
                                   pw_cur_dir))
  /\ pw_cur_dir' = IF pw_phase = 1
                   THEN join_segs(pw_cur_dir, <<unpack_dirname>>)
                   ELSE pw_cur_dir
  /\ pw_pc' = after_phase(pw_phase).pc
  /\ pw_phase' = after_phase(pw_phase).phase
  /\ pw_i' = 1
  /\ UNCHANGED <<run, pathv, extractv, stepv, substv, shellv, filterv, passv,
                 threadv,
                 declared, body, destdir>>

\* Lines 735-743: cur_dir = $DESTDIR, then src_pkg.
PwSrcPkg ==
  /\ pw_pc = "src_pkg"
  /\ pw_cur_dir' = DestDir
  /\ issued' = Append(issued, call("src_pkg", Simple(helper("src_pkg")),
                                   DestDir))
  /\ pw_pc' = "src_checksum"
  /\ UNCHANGED <<run, pathv, extractv, stepv, substv, shellv, filterv, passv,
                 threadv,
                 declared, body, destdir, pw_phase, pw_i>>

\* Lines 744-755: cur_dir = /external/repo, then src_checksum.
PwSrcChecksum ==
  /\ pw_pc = "src_checksum"
  /\ pw_cur_dir' = RepoDir
  /\ issued' =
       Append(issued,
              call("src_checksum",
                   Simple(helper("src_checksum ${pkg} ${revision}")), RepoDir))
  /\ pw_pc' = "done"
  /\ UNCHANGED <<run, pathv, extractv, stepv, substv, shellv, filterv, passv,
                 threadv,
                 declared, body, destdir, pw_phase, pw_i>>

\* do_step, lines 131-137: the command of the step just issued fails in a
\* serial step and the build is aborted.
PwStepFails ==
  /\ pw_pc \in {"phase", "src_pkg", "src_checksum"}
  /\ issued # <<>> /\ issued[Len(issued)].step.serial
  /\ pw_pc' = "panic"
  /\ UNCHANGED <<run, pathv, extractv, stepv, substv, shellv, filterv, passv,
                 threadv,
                 declared, body, destdir, pw_phase, pw_i, pw_cur_dir, issued>>

PhaseNext ==
  \/ PwMkdir \/ PwDeclared \/ PwPhaseEnd \/ PwOmitted
  \/ PwSrcPkg \/ PwSrcChecksum \/ PwStepFails

PhaseSpec == PhaseInit /\ [][PhaseNext]_vars

(* ------------------------------ C28 ----------------------------------- *)

\* What a phase is to issue: its steps with "default" replaced, flags kept,
\* or, when the recipe leaves it out, the one default helper.
PhaseSteps(ph) ==
  IF ph \in declared
  THEN [i \in DOMAIN body |->
          <<PhaseNames[ph],
            IF body[i].cmd = <<"default">>
            THEN [body[i] EXCEPT !.cmd = default_helper(ph)]
            ELSE body[i]>>]
  ELSE <<<<PhaseNames[ph], Simple(default_helper(ph))>>>>

RECURSIVE PhasesFrom(_)
PhasesFrom(ph) ==
  IF ph > Len(PhaseNames) THEN <<>> ELSE PhaseSteps(ph) \o PhasesFrom(ph + 1)

ExpectedSteps ==
  <<<<"mkdir", Simple(<<"mkdir", "build">>)>>>> \o PhasesFrom(1)
    \o <<<<"src_pkg", Simple(helper("src_pkg"))>>,
         <<"src_checksum",
           Simple(helper("src_checksum ${pkg} ${revision}"))>>>>

\* The steps are issued in the order of the phases, nothing else is issued,
\* and a build that ends has issued them all.
IssuedInOrder ==
  /\ Len(issued) <= Len(ExpectedSteps)
  /\ \A i \in DOMAIN issued :
       <<issued[i].phase, issued[i].step>> = ExpectedSteps[i]
  /\ pw_pc = "done" => Len(issued) = Len(ExpectedSteps)

\* The calls made for a phase.
CallsOf(phase) == {i \in DOMAIN issued : issued[i].phase = phase}
FirstOf(phase) == CHOOSE i \in CallsOf(phase) : \A j \in CallsOf(phase) : i <= j

\* src_pkg runs in $DESTDIR and src_checksum in /external/repo.
TerminalDirs ==
  /\ \A i \in CallsOf("src_pkg") : issued[i].dir = DestDir
  /\ \A i \in CallsOf("src_checksum") : issued[i].dir = RepoDir

KeyChars == <<"1", "2", "9", ":", "a", "b", "c", "x">>
CharIdx(ch) == CHOOSE i \in DOMAIN KeyChars : KeyChars[i] = ch

\* The (name, version) pair of a node.
NameVersion(n) ==
  CASE n = "a:1" -> <<<<"a">>, <<"1">>>>
    [] n = "b:1" -> <<<<"b">>, <<"1">>>>
    [] n = "b:2" -> <<<<"b">>, <<"2">>>>
    [] n = "c:1" -> <<<<"c">>, <<"1">>>>
    [] n = "x:9" -> <<<<"x">>, <<"9">>>>

\* s < t for two strings, byte by byte.
RECURSIVE StrLess(_, _)
StrLess(s, t) ==
  IF t = <<>> THEN FALSE
  ELSE IF s = <<>> THEN TRUE
  ELSE IF s[1] # t[1] THEN CharIdx(s[1]) < CharIdx(t[1])
  ELSE StrLess(Tail(s), Tail(t))

\* (name, version) of m is smaller than that of n, or the same.
PairLeq(m, n) ==
  LET a == NameVersion(m)
      b == NameVersion(n)
  IN  \/ StrLess(a[1], b[1])
      \/ a[1] = b[1] /\ (a[2] = b[2] \/ StrLess(a[2], b[2]))

Ready(dt) == {n \in DOMAIN dt : dt[n] = {}}

\* The smallest ready node of a graph with a ready node.
Smallest(dt) == CHOOSE n \in Ready(dt) : \A m \in Ready(dt) : PairLeq(n, m)

\* The order in which the nodes of a graph leave it.
RECURSIVE CompletionOrder(_)
CompletionOrder(dt) ==
  IF Ready(dt) = {} THEN <<>>
  ELSE <<Smallest(dt)>> \o
         CompletionOrder([n \in DOMAIN dt \ {Smallest(dt)} |->
                            dt[n] \ {Smallest(dt)}])

ReadyChoiceStep ==
  cpc = "loop" =>
    /\ Len(completed') > Len(completed) =>
         /\ Ready(deptree) # {}
         /\ completed'[Len(completed')].node = Smallest(deptree)
    /\ cpc' \in {"work", "aborted"} =>
         /\ Ready(deptree) # {}
         /\ to_build' = Smallest(deptree)
    /\ cpc' = "term" => Ready(deptree) = {}

\* The nodes complete in the one order the corpus fixes.
OrderFixed ==
  LET order == CompletionOrder([n \in Nodes |-> Deps(n)])
  IN  /\ Len(completed) <= Len(order)
      /\ \A i \in DOMAIN completed : completed[i].node = order[i]
      /\ cpc \in BuildPoints => to_build = order[Len(completed) + 1]

\* C33: the node the main loop considers, whether it takes it from the cache
\* or dispatches it, is the smallest (name, version) pair among the nodes with
\* no unsatisfied dep, and the loop ends only when there is none; so the
\* nodes complete in an order that the corpus alone fixes.
ReadyNodeChoice == [][ReadyChoiceStep]_vars /\ []OrderFixed

\* Two nodes were ready at once; the smaller was completed first and the
\* larger is being built.
ReadyNodeChoiceWitness ==
  /\ Cardinality(Nodes) = 2
  /\ \A n \in Nodes : Deps(n) = {}
  /\ Len(completed) = 1
  /\ completed[1].node = "a:1"
  /\ cpc = "store" /\ to_build = "b:1"

(* ------------------------------ C39 ----------------------------------- *)

\* The nodes that depend, directly or through other nodes, on a node of a
\* cycle or on a name that is not a declared recipe.
Blocked ==
  {n \in Nodes : \E d \in Reach(n) : d \notin Nodes \/ d \in CycleNodes}

\* The terminate byte has been sent.
TerminateSent == cpc = "done"

\* C39: when the terminate byte is sent no node of the graph is ready, the
\* nodes left in the graph are exactly those that depend on a cycle or on an
\* undeclared (name, version), and every other node has been completed.
RemainingAtTermination ==
  (cpc = "term" \/ TerminateSent) =>
    /\ \A n \in DOMAIN deptree : deptree[n] # {}
    /\ DOMAIN deptree = Blocked
    /\ CompletedNodes = Nodes \ Blocked

\* The terminate byte has been sent with one node completed and one left
\* that depends on an undeclared name.
RemainingAtTerminationWitness ==
  /\ TerminateSent
  /\ Cardinality(CompletedNodes) = 1
  /\ \E n \in DOMAIN deptree : Undeclared \in deptree[n]
  /\ CycleNodes = {}

(* ------------------------------ C36 ----------------------------------- *)

\* C36: while a build of a node is dispatched, every dep the node declares
\* has an equivalence hash and the artefact file of that hash exists, and
\* load_dep never fails.
DispatchPrecondition ==
  /\ cpc \in BuildPoints =>
       \A d \in Deps(to_build) :
         /\ IsHash(H_eq(d))
         /\ dep_path(H_eq(d)) \in DOMAIN fs
  /\ cerr # "load_dep"

(* ------------------------------ C38 ----------------------------------- *)

\* The keys of equiv.sled that the step writes.
Written == {k \in DOMAIN sled' : k \notin DOMAIN sled \/ sled'[k] # sled[k]}

\* A run goes on: the step is not the start of the next run.
SameRun == ~(cpc \in {"done", "aborted"} /\ cpc' = "loop")

\* The dep-closure hash a lookup computes that starts with an empty
\* in-memory cache.
FreshDepdHash(n, s) == get_depd_hash(n, EmptyMap, s, {}).val

ArtefactFirstStep ==
  SameRun =>
    /\ \A p \in DOMAIN fs : p \in DOMAIN fs' /\ fs'[p] = fs[p]
    /\ \A k \in Written :
         /\ dep_path(sled'[k]) \in DOMAIN fs'
         /\ sha256(fs'[dep_path(sled'[k])]) = sled'[k]
         /\ k = FreshDepdHash(to_build, sled')

\* The entries this run has written have their artefact files.
WrittenHaveFiles ==
  \A i \in DOMAIN completed :
    completed[i].by = "build" =>
      LET E == sha256(completed[i].archive)
      IN  /\ E \in Range(sled)
          /\ dep_path(E) \in DOMAIN fs
          /\ sha256(fs[dep_path(E)]) = E

\* C38: within a run no artefact file is lost, a step that writes an
\* equiv.sled entry leaves the artefact file of its value in place with
\* content that hashes to the value (the file is written no later than the
\* entry, also when the process dies inside store_dep), and the key written
\* is the dep-closure hash a fresh lookup of the node computes afterwards.
ArtefactBeforeIndex == [][ArtefactFirstStep]_vars /\ []WrittenHaveFiles

\* The coordinator has died between the two writes of store_dep.
ArtefactBeforeIndexWitness ==
  /\ cerr = "crash"
  /\ dep_path(sha256(buf)) \in DOMAIN fs
  /\ sha256(buf) \notin Range(sled)
  /\ completed # <<>>

(* ------------- worker: main and the build thread (worker.rs) ----------- *)

\* Overlay files of a recipe, steps of a recipe.
MaxOverlays == 2
MaxCmds == 2

\* Paths that can arrive as overlay names, in the order of PathBuf:
\* "/etc/foo", "../a", "a", "etc/../foo".
OverlayNames ==
  << <<"", "etc", "foo">>, <<"..", "a">>, <<"a">>, <<"etc", "..", "foo">> >>

\* The key sequences of a BTreeMap<PathBuf, _> of at most MaxOverlays entries.
OverlayMaps ==
  {[i \in 1..Len(ix) |-> OverlayNames[ix[i]]] :
     ix \in {jx \in UNION {[1..k -> DOMAIN OverlayNames] : k \in 0..MaxOverlays} :
               \A i, j \in DOMAIN jx : i < j => jx[i] < jx[j]}}

\* Everything outside the worker's two threads.
outside == <<run, pathv, extractv, stepv, substv, shellv, filterv, passv, phasev>>

\* The stages of build, in the order of the code.
Stages ==
  <<"tempdir", "mount_pts", "mount_proc", "sources", "deps", "overlays",
    "mkdirs", "steps", "join", "tar", "umount_proc", "umount_pts", "done",
    "return">>
InBuild == Range(Stages)

ThreadInit ==
  /\ RunIdle /\ PathIdle /\ ExtractIdle /\ StepIdle /\ SubstIdle /\ ShellIdle
  /\ FilterIdle /\ PassIdle /\ PhaseIdle
  /\ overlay_data \in OverlayMaps
  /\ step_n \in 0..MaxCmds
  /\ b_pc = "idle" /\ ov_i = 0 /\ pending = 0 /\ mounts = <<>>
  /\ work_dir = "none" /\ wrote = <<>> /\ pq = <<>> /\ sender = FALSE
  /\ m_pc = "spawn" /\ sent = <<>> /\ printed = <<>> /\ log = <<>>

\* main, lines 55-59: the channel is made and build is spawned with the
\* Sender moved into it.
MSpawn ==
  /\ m_pc = "spawn"
  /\ m_pc' = "recv" /\ sender' = TRUE /\ b_pc' = "tempdir"
  /\ log' = Append(log, "spawn")
  /\ UNCHANGED <<outside, overlay_data, step_n, ov_i, pending, mounts,
                 work_dir, wrote, pq, sent, printed>>

\* Lines 149-210: the build root and its device nodes.
BTempdir ==
  /\ b_pc = "tempdir"
  /\ work_dir' = "live" /\ b_pc' = "mount_pts"
  /\ log' = Append(log, "tempdir")
  /\ UNCHANGED <<outside, overlay_data, step_n, ov_i, pending, mounts, wrote,
                 pq, sender, m_pc, sent, printed>>

\* Lines 211-219.
BMountPts ==
  /\ b_pc = "mount_pts"
  /\ mounts' = Append(mounts, "dev/pts") /\ b_pc' = "mount_proc"
  /\ log' = Append(log, "mount dev/pts")
  /\ UNCHANGED <<outside, overlay_data, step_n, ov_i, pending, work_dir,
                 wrote, pq, sender, m_pc, sent, printed>>

\* Lines 220-228.
BMountProc ==
  /\ b_pc = "mount_proc"
  /\ mounts' = Append(mounts, "proc") /\ b_pc' = "sources"
  /\ log' = Append(log, "mount proc")
  /\ UNCHANGED <<outside, overlay_data, step_n, ov_i, pending, work_dir,
                 wrote, pq, sender, m_pc, sent, printed>>

\* Lines 230-262: the sources are extracted or written.
BSources ==
  /\ b_pc = "sources"
  /\ b_pc' = "deps"
  /\ log' = Append(log, "sources")
  /\ UNCHANGED <<outside, overlay_data, step_n, ov_i, pending, mounts,
                 work_dir, wrote, pq, sender, m_pc, sent, printed>>

\* Lines 263-281: the deps are extracted.
BDeps ==
  /\ b_pc = "deps"
  /\ b_pc' = "overlays" /\ ov_i' = 1
  /\ log' = Append(log, "deps")
  /\ UNCHANGED <<outside, overlay_data, step_n, pending, mounts, work_dir,
                 wrote, pq, sender, m_pc, sent, printed>>

\* Line 284: work_dir.path().join(path).
overlay_target(path) == join(BuildRoot, components(path))

\* The file a path names once the kernel has walked its ".." components.
resolved(comps) == clean(comps)

\* Lines 283-287, one round of the loop: the parent directories are made
\* and the file is written at the joined path.
BOverlay ==
  /\ b_pc = "overlays" /\ ov_i <= Len(overlay_data)
  /\ LET target == overlay_target(overlay_data[ov_i])
     IN  /\ resolved(target) \notin {<<RootDir>>, BuildRoot}
         /\ wrote' = Append(wrote, [by |-> "overlay", path |-> resolved(target)])
  /\ ov_i' = ov_i + 1
  /\ log' = Append(log, "overlay")
  /\ UNCHANGED <<outside, overlay_data, step_n, b_pc, pending, mounts,
                 work_dir, pq, sender, m_pc, sent, printed>>

\* Lines 289-294: the overlays are written, the mkdirs are made.
BMkdirs ==
  /\ b_pc = "overlays" /\ ov_i > Len(overlay_data)
  /\ b_pc' = "steps"
  /\ log' = Append(log, "mkdirs")
  /\ UNCHANGED <<outside, overlay_data, step_n, ov_i, pending, mounts,
                 work_dir, wrote, pq, sender, m_pc, sent, printed>>

CommandRun == "CommandRun"
StatusDone == "Done"

\* do_step, lines 95-97 and 105-108: an assignment or a cd sends nothing.
BStepQuiet ==
  /\ b_pc = "steps" /\ step_n > 0
  /\ step_n' = step_n - 1
  /\ log' = Append(log, "step")
  /\ UNCHANGED <<outside, overlay_data, b_pc, ov_i, pending, mounts, work_dir,
                 wrote, pq, sender, m_pc, sent, printed>>

\* do_step, lines 118-134, a serial step whose child succeeds: the pending
\* children are joined, CommandRun is sent, the child is waited for.
BStepSerial ==
  /\ b_pc = "steps" /\ step_n > 0
  /\ step_n' = step_n - 1 /\ pending' = 0
  /\ pq' = Append(pq, CommandRun) /\ sent' = Append(sent, CommandRun)
  /\ log' = Append(log, "step")
  /\ UNCHANGED <<outside, overlay_data, b_pc, ov_i, mounts, work_dir, wrote,
                 sender, m_pc, printed>>

\* do_step, lines 123-137, a step that is not serial: CommandRun is sent and
\* the child is pushed to join_handles.
BStepSpawn ==
  /\ b_pc = "steps" /\ step_n > 0
  /\ step_n' = step_n - 1 /\ pending' = pending + 1
  /\ pq' = Append(pq, CommandRun) /\ sent' = Append(sent, CommandRun)
  /\ log' = Append(log, "step")
  /\ UNCHANGED <<outside, overlay_data, b_pc, ov_i, mounts, work_dir, wrote,
                 sender, m_pc, printed>>

\* do_step, lines 123-134, a serial step whose child fails: CommandRun is
\* sent and std::process::abort ends the process, both threads with it.
BStepAbort ==
  /\ b_pc = "steps" /\ step_n > 0 /\ m_pc = "recv"
  /\ pq' = Append(pq, CommandRun) /\ sent' = Append(sent, CommandRun)
  /\ b_pc' = "aborted" /\ m_pc' = "aborted"
  /\ log' = Append(log, "abort")
  /\ UNCHANGED <<outside, overlay_data, step_n, ov_i, pending, mounts,
                 work_dir, wrote, sender, printed>>

\* The steps are done.
BStepsEnd ==
  /\ b_pc = "steps" /\ step_n = 0
  /\ b_pc' = "join"
  /\ UNCHANGED <<outside, overlay_data, step_n, ov_i, pending, mounts,
                 work_dir, wrote, pq, sender, m_pc, sent, printed, log>>

\* Lines 757-759: every pending child is waited for and has succeeded.
BJoin ==
  /\ b_pc = "join"
  /\ pending' = 0 /\ b_pc' = "tar"
  /\ log' = Append(log, "joined")
  /\ UNCHANGED <<outside, overlay_data, step_n, ov_i, mounts, work_dir, wrote,
                 pq, sender, m_pc, sent, printed>>

\* Lines 760-801: the artefacts are appended to the tar.
BTar ==
  /\ b_pc = "tar"
  /\ b_pc' = "umount_proc"
  /\ log' = Append(log, "tar")
  /\ UNCHANGED <<outside, overlay_data, step_n, ov_i, pending, mounts,
                 work_dir, wrote, pq, sender, m_pc, sent, printed>>

\* The mount table without one mount point.
umount(ms, point) == SelectSeq(ms, LAMBDA x : x # point)

\* A build that leaves dev/pts mounted.
BUmountPtsSkipped ==
  /\ b_pc = "umount_pts"
  /\ b_pc' = "done"
  /\ UNCHANGED <<outside, overlay_data, step_n, ov_i, pending, mounts,
                 work_dir, wrote, pq, sender, m_pc, sent, printed, log>>

\* Line 802.
BUmountProc ==
  /\ b_pc = "umount_proc"
  /\ mounts' = umount(mounts, "proc") /\ b_pc' = "umount_pts"
  /\ log' = Append(log, "umount proc")
  /\ UNCHANGED <<outside, overlay_data, step_n, ov_i, pending, work_dir,
                 wrote, pq, sender, m_pc, sent, printed>>

\* Line 803.
BUmountPts ==
  /\ b_pc = "umount_pts"
  /\ mounts' = umount(mounts, "dev/pts") /\ b_pc' = "done"
  /\ log' = Append(log, "umount dev/pts")
  /\ UNCHANGED <<outside, overlay_data, step_n, ov_i, pending, work_dir,
                 wrote, pq, sender, m_pc, sent, printed>>

\* Lines 804-807: the tar is finished and hashed, Done is sent.
BSendDone ==
  /\ b_pc = "done"
  /\ pq' = Append(pq, StatusDone) /\ sent' = Append(sent, StatusDone)
  /\ b_pc' = "return"
  /\ log' = Append(log, "Done")
  /\ UNCHANGED <<outside, overlay_data, step_n, ov_i, pending, mounts,
                 work_dir, wrote, sender, m_pc, printed>>

\* Line 808: build returns; its locals are dropped, the build root and the
\* Sender among them.
BReturn ==
  /\ b_pc = "return"
  /\ b_pc' = "returned" /\ work_dir' = "released" /\ sender' = FALSE
  /\ log' = Append(log, "return")
  /\ UNCHANGED <<outside, overlay_data, step_n, ov_i, pending, mounts, wrote,
                 pq, m_pc, sent, printed>>

\* An unwrap, expect or assert of build fails: the thread unwinds, its
\* locals are dropped, what is mounted stays mounted.
BPanic ==
  /\ b_pc \in InBuild
  /\ b_pc' = "panicked" /\ sender' = FALSE
  /\ work_dir' = IF work_dir = "live" THEN "released" ELSE work_dir
  /\ log' = Append(log, "panic")
  /\ UNCHANGED <<outside, overlay_data, step_n, ov_i, pending, mounts, wrote,
                 pq, m_pc, sent, printed>>

\* A receive loop that ends when the channel is empty.
MRecvEndEmpty ==
  /\ m_pc = "recv" /\ pq = <<>>
  /\ m_pc' = "join"
  /\ UNCHANGED <<outside, overlay_data, step_n, b_pc, ov_i, pending, mounts,
                 work_dir, wrote, pq, sender, sent, printed, log>>

\* Lines 61-63, recv returns Ok: the update is printed.
MRecv ==
  /\ m_pc = "recv" /\ pq # <<>>
  /\ printed' = Append(printed, Head(pq)) /\ pq' = Tail(pq)
  /\ UNCHANGED <<outside, overlay_data, step_n, b_pc, ov_i, pending, mounts,
                 work_dir, wrote, sender, m_pc, sent, log>>

\* Line 61, recv returns Err: the channel is empty and its Sender is gone.
MRecvEnd ==
  /\ m_pc = "recv" /\ pq = <<>> /\ ~sender
  /\ m_pc' = "join"
  /\ UNCHANGED <<outside, overlay_data, step_n, b_pc, ov_i, pending, mounts,
                 work_dir, wrote, pq, sender, sent, printed, log>>

\* Line 65: join returns once the thread has ended; a panic of the thread
\* is an Err, which unwrap turns into a panic of main.
MJoin ==
  /\ m_pc = "join" /\ b_pc \in {"returned", "panicked"}
  /\ m_pc' = IF b_pc = "returned" THEN "write_archive" ELSE "panicked"
  /\ log' = Append(log, "join")
  /\ UNCHANGED <<outside, overlay_data, step_n, b_pc, ov_i, pending, mounts,
                 work_dir, wrote, pq, sender, sent, printed>>

\* Line 67: BuildComplete, the hash and the archive are written.
MWriteArchive ==
  /\ m_pc = "write_archive"
  /\ m_pc' = "sent"
  /\ log' = Append(log, "BuildComplete")
  /\ UNCHANGED <<outside, overlay_data, step_n, b_pc, ov_i, pending, mounts,
                 work_dir, wrote, pq, sender, sent, printed>>

BuildNext ==
  \/ BTempdir \/ BMountPts \/ BMountProc \/ BSources \/ BDeps \/ BOverlay
  \/ BMkdirs \/ BStepQuiet \/ BStepSerial \/ BStepSpawn \/ BStepAbort
  \/ BStepsEnd \/ BJoin \/ BTar \/ BUmountProc \/ BUmountPts \/ BSendDone
  \/ BReturn \/ BPanic

MainNext == MSpawn \/ MRecv \/ MRecvEnd \/ MJoin \/ MWriteArchive

ThreadNext == BuildNext \/ MainNext

ThreadSpec == ThreadInit /\ [][ThreadNext]_vars

\* Both threads are scheduled.
FairThreadSpec ==
  ThreadSpec /\ WF_vars(MainNext) /\ WF_vars(BuildNext)

(* ------------------------------ C31 ----------------------------------- *)

\* The stage named has run before position i of the log.
Before(i, stage) == \E j \in 1..(i - 1) : log[j] = stage

\* Overlays are written after the sources and the deps and before the
\* mkdirs and the steps.
OverlayOrder ==
  \A i \in DOMAIN log :
    log[i] = "overlay" =>
      /\ Before(i, "sources") /\ Before(i, "deps")
      /\ ~Before(i, "mkdirs") /\ ~Before(i, "step")

\* C31: every overlay file is written inside the build root, whatever path
\* arrived on the wire, and overlays are written after sources and deps and
\* before mkdirs and build steps.
OverlayContainment ==
  /\ \A i \in DOMAIN wrote :
       wrote[i].by = "overlay" => Within(BuildRoot, wrote[i].path)
  /\ OverlayOrder

(* ------------------------------ C32 ----------------------------------- *)

\* The stage has run, and where in the log.
Ran(stage) == \E i \in DOMAIN log : log[i] = stage
Pos(stage) == CHOOSE i \in DOMAIN log : log[i] = stage

\* The first stage ran before the second.
Precedes(s1, s2) == Ran(s1) /\ Ran(s2) /\ Pos(s1) < Pos(s2)

\* C32: in a build that has returned, dev/pts was mounted before proc, proc
\* was unmounted before dev/pts, both after the children were joined and the
\* artefacts appended to the tar, and both before build returned and
\* released the build root; nothing is mounted once the build root is
\* released by a build that returns.
MountLifecycle ==
  /\ b_pc = "returned" =>
       /\ Precedes("mount dev/pts", "mount proc")
       /\ Precedes("umount proc", "umount dev/pts")
       /\ Precedes("joined", "umount proc")
       /\ Precedes("tar", "umount proc")
       /\ Precedes("umount dev/pts", "return")
       /\ mounts = <<>>
  /\ b_pc \in {"umount_pts", "done", "return"} => "proc" \notin Range(mounts)
  /\ (work_dir = "released" /\ b_pc # "panicked") => mounts = <<>>
  /\ work_dir = "none" => mounts = <<>>

\* A build with an overlay and a child joined at the end has returned.
MountLifecycleWitness ==
  /\ b_pc = "returned" /\ work_dir = "released"
  /\ wrote # <<>> /\ sent # <<StatusDone>>
  /\ log[Len(log)] = "return"

(* ------------------------------ C35 ----------------------------------- *)

\* Only a step of the build thread sends, only a step of main receives.
ChannelStep ==
  /\ sent' # sent =>
       /\ b_pc \in InBuild /\ sender
       /\ printed' = printed
       /\ \E u \in {CommandRun, StatusDone} : sent' = Append(sent, u)
  /\ printed' # printed =>
       /\ m_pc = "recv" /\ m_pc' = "recv"
       /\ sent' = sent /\ b_pc' = b_pc
  /\ (m_pc = "recv" /\ m_pc' = "join") => b_pc \in {"returned", "panicked"}

\* Done is the last update sent, so it is sent at most once.
DoneOnceLast == \A i \in DOMAIN sent : sent[i] = StatusDone => i = Len(sent)

\* BuildComplete is written after a successful join, with every update
\* received.
CompleteAfterJoin ==
  m_pc \in {"write_archive", "sent"} =>
    /\ b_pc = "returned" /\ Ran("join")
    /\ pq = <<>> /\ printed = sent
    /\ sent # <<>> /\ sent[Len(sent)] = StatusDone

\* The build thread has returned or panicked.
BuildFinished == b_pc \in {"returned", "panicked"}

\* C35: only the build thread sends on the status channel and only main
\* receives; Done is sent at most once and is the last update; the receive
\* loop ends once the build thread has returned or panicked; BuildComplete is
\* written only after the build thread was joined successfully and every
\* update was received.
StatusChannel ==
  /\ [][ChannelStep]_vars
  /\ [](DoneOnceLast /\ CompleteAfterJoin)
  /\ (BuildFinished ~> m_pc # "recv")

\* BuildComplete has been written after two updates and Done were received.
StatusChannelWitness ==
  /\ m_pc = "sent" /\ Len(printed) = 3 /\ b_pc = "returned"

(* ------------------------------ C34 ----------------------------------- *)

\* The worker has read everything of a round and the coordinator waits for
\* the archive.
RoundRead == wpc \in {"w_build", "w_complete"} /\ cpc = "complete"

\* What build_recipe hands to write_source, write_dep, write_overlay and
\* write_envs in the round of to_build, as maps.
SentSources ==
  [s \in Range(recipes[to_build].source) |->
     <<SOURCES(s), fs[source_path(SOURCES(s).sha)]>>]
SentDeps ==
  [d \in Range(recipes[to_build].deps) |-> fs[dep_path(EQUIV_CACHE[d])]]
SentOverlays ==
  [p \in Range(overlays[to_build]) |-> OverlayData(to_build, p)]

Decision(n) == test_dep(n, EmptyMap, sled, fs).ok

\* The hashes such a coordinator computes for the node.
ScopeHashes(n) == <<get_recipe_hash(n), FreshDepdHash(n, sled)>>

\* An edit of the overlay files, the env file or sources.yaml changes no
\* decision and no hash.
ScopeStep ==
  <<overlays, envfile, sources_yaml>>' # <<overlays, envfile, sources_yaml>> =>
    \A n \in Nodes :
      /\ Decision(n)' = Decision(n)
      /\ ScopeHashes(n)' = ScopeHashes(n)

\* The decision of the running coordinator is the one test_dep computes from
\* the recipe, the equivalence hashes it holds, equiv.sled and build-cache.
DecisionStep ==
  (cpc = "loop" /\ ready_to_build(deptree) # {}) =>
    LET hit == /\ IsHash(H_eq(NextReady))
               /\ dep_path(H_eq(NextReady)) \in DOMAIN fs
    IN  /\ completed' # completed => hit
        /\ cpc' \in {"work", "aborted"} => ~hit

\* C37: the cache decision and the hashes H_r and H_d of a node are the same
\* before and after an edit of the overlay files, the env file and the url
\* and sha entries of sources.yaml, and the decision a run takes is fixed by
\* the recipe, the equivalence hashes of the deps, equiv.sled and
\* build-cache.
CacheKeyScope == [][ScopeStep /\ DecisionStep]_vars

\* After the first run sources.yaml was edited and the overlays and the env
\* file were removed, and the next run has satisfied a node that has a
\* source from the cache.
CacheKeyScopeWitness ==
  /\ prevRun # "none"
  /\ sources_yaml = "2" /\ envfile = <<>>
  /\ \A n \in Nodes : overlays[n] = <<>>
  /\ \E i \in DOMAIN completed :
       /\ completed[i].by = "cache"
       /\ recipes[completed[i].node].source # <<>>

(* ------------------------------ C40 ----------------------------------- *)

\* Characters of a line whose references form chains.
MaxChain == 3

ChainLines == UNION {[1..k -> {"$", "{", "}", "A", "B"}] : k \in 0..MaxChain}

\* Envs in which A may refer to B and B refers to nothing.
ChainEnvs ==
  {Env(a, b) :
     a \in {<<"c">>, <<"$", "B">>, <<"$", "B", "$", "B">>,
            <<"$", "{", "B", "}", "A">>},
     b \in {<<"c">>, <<"$">>}}

ChainInit ==
  /\ RunIdle /\ PathIdle /\ ExtractIdle /\ StepIdle /\ ShellIdle
  /\ FilterIdle /\ BuildIdle
  /\ line \in ChainLines
  /\ env \in ChainEnvs
  /\ ret = Unset

ChainSpec == ChainInit /\ [][SubstNext]_vars

\* One pass of the loop: both replace_all calls.
OnePass(text, e) ==
  LET s == replace_all("simple", text, 1, e)
      b == replace_all("brace", s.out, 1, e)
  IN  [out |-> b.out, changed |-> s.changed \/ b.changed, ok |-> s.ok /\ b.ok]

\* The passes that replace something before the call returns or panics, as
\* far as k passes.
RECURSIVE Replacing(_, _, _)
Replacing(text, e, k) ==
  IF k = 0 THEN 0
  ELSE LET p == OnePass(text, e)
       IN  IF ~p.ok \/ ~p.changed THEN 0
           ELSE 1 + Replacing(p.out, e, k - 1)

Max(S) == CHOOSE m \in S : \A x \in S : x <= m

\* The length of the longest chain of references that starts in text.
RECURSIVE ChainDepth(_, _, _)
ChainDepth(text, e, k) ==
  IF k = 0 \/ References(text) = {} THEN 0
  ELSE 1 + Max({0} \cup {ChainDepth(e[n], e, k - 1) :
                           n \in References(text) \cap DOMAIN e})

\* The references of text that begin where another reference ends.
Adjacent(text) ==
  Cardinality({d \in DOMAIN text :
                 /\ Unescaped(text, d)
                 /\ \E c \in DOMAIN text :
                      Unescaped(text, c) /\ Reference(text, c).to = d - 1})

AdjacentAll == Adjacent(line) + Adjacent(env[<<"A">>]) + Adjacent(env[<<"B">>])

\* C40: with values that refer to each other acyclically env_substitute
\* ends (it returns or panics), and the passes that replace something are
\* at most the depth of the reference chain plus the adjacent references.
SubstituteTerminates ==
  (ret # Unset /\ NoSelfReference) =>
    /\ ret # Hangs
    /\ Replacing(line, env, MaxPasses) <= ChainDepth(line, env, 3) + AdjacentAll

=============================================================================
